---- MODULE Spec2Model ----
(***************************************************************************)
(* Model of wt, a git worktree manager: the repository lock (wt/lock.py),  *)
(* the entry point that takes it (wt/cli.py main), the post-create hook    *)
(* pipeline (wt/hooks.py), the new-worktree workflow (wt/cli.py cmd_new),  *)
(* the worktree enumeration (wt/gitutil.py list_worktrees) and the list,   *)
(* status, pull-main, prune-merged and rm commands (wt/cli.py,             *)
(* wt/status.py, wt/table.py).                                             *)
(***************************************************************************)
EXTENDS Integers, Sequences, FiniteSets, TLC

VARIABLES
    platform,    \* sys.platform of the host: "unix" (fcntl) or "win32" (PID file)
    pc,          \* per invocation: position in main() / RepoLock
    lock_path,   \* RepoLock.lock_path
    lock_file,   \* RepoLock.lock_file is an open file (TRUE) or None (FALSE)
    acquired,    \* RepoLock.acquired
    attempt,     \* loop variable of _acquire_windows
    todo,        \* number of mutating steps the dispatched command has still to execute
    exitKind,    \* how the invocation ended
    origin,      \* directory the invocation was started from, until it acquires
    flock,       \* kernel state: set of <<path, process>> holding LOCK_EX
    files,       \* file system: lock file path -> content (decimal digits)
    readable,    \* FALSE: reading the lock file raises OSError (PermissionError)
    hpc,                \* position in run_post_create_hooks
    local_config_path,  \* the argument is a path (TRUE) or None (FALSE)
    local_hook_dir,     \* <repo>/.wt/<post_create_dir> on disk
    global_hook_dir,    \* ~/.config/wt/<post_create_dir> on disk
    continue_on_error,  \* config["hooks"]["continue_on_error"]
    hooks,              \* result of discover_hooks
    idx,                \* position of the for loop in hooks
    child,              \* index of the hook whose subprocess is running, or 0
    started,            \* hooks _run_hook was called on, in call order
    outcomes,           \* how each started hook ended
    captured,           \* per ended hook: result.stdout was non-empty
    out,                \* what run_post_create_hooks printed, in order
    npc,              \* position in cmd_new
    args,             \* parsed arguments of `wt new`
    cfg,              \* the merged configuration
    remote,           \* the branches of the remote origin
    repo,             \* the repository and the file system around it
    repo0,            \* repo as it was when cmd_new was entered
    clock,            \* the wall clock read by datetime.now()
    git_branch_name,  \* local of cmd_new
    source_branch,    \* local of cmd_new
    worktree_path,    \* local of cmd_new
    path_context,     \* the context resolve_worktree_path rendered with
    hook_context,     \* local context of cmd_new, handed to the hooks
    printed,          \* what cmd_new printed on stdout after the progress lines
    error,            \* the error the run ended with, or "none"
    exit_status,      \* exit status of the process, or -1 while it runs
    cpc,         \* position in the command function under examination
    copts,       \* its arguments and the configuration values it reads
    cworld,      \* what git answers in each checkout while the command runs
    porcelain,   \* lines printed by `git worktree list --porcelain`
    worktrees,   \* what list_worktrees returned: [ok, records]
    ci,          \* position of the command's for loop
    statuses,    \* the list get_all_worktree_statuses builds
    shown,       \* what the command printed, in order
    cgit,        \* git operations the command carried out, in order
    cerror,      \* the exception the command ended with, or "none"
    cexit,       \* exit status of the process, or -1 while it runs
    call,        \* the function under examination and its arguments
    answer       \* what the call returned or raised, once it has ended

lockVars == <<platform, pc, lock_path, lock_file, acquired, attempt, todo,
              exitKind, origin, flock, files, readable>>

hookVars == <<hpc, local_config_path, local_hook_dir, global_hook_dir,
              continue_on_error, hooks, idx, child, started, outcomes,
              captured, out>>

newVars == <<npc, args, cfg, remote, repo, repo0, clock, git_branch_name,
             source_branch, worktree_path, path_context, hook_context,
             printed, error, exit_status>>

cmdVars == <<cpc, copts, cworld, porcelain, worktrees, ci, statuses, shown, cgit,
             cerror, cexit>>

pureVars == <<call, answer>>

vars == <<lockVars, hookVars, newVars, cmdVars, pureVars>>

-----------------------------------------------------------------------------
(* Bounds *)

NumProcs == 2

\* entries of one hook directory
MaxEntries == 2

Procs == 1..NumProcs

\* max_attempts of _acquire_windows
MaxAttempts == 50

-----------------------------------------------------------------------------
(* Paths: a path is the sequence of its components *)

MainRoot == <<"repo">>

LinkedWorktrees == {<<"repo-worktrees", "feat">>}

CheckoutRoots == {MainRoot} \cup LinkedWorktrees

StartDirs == CheckoutRoots \cup {<<"repo", "src">>, <<"tmp">>}

NoPath == <<>>

IsPrefix(a, b) == Len(a) <= Len(b) /\ SubSeq(b, 1, Len(a)) = a

Parent(path) == SubSeq(path, 1, Len(path) - 1)

RECURSIVE ResolveFrom(_, _)
ResolveFrom(acc, rest) ==
    IF rest = <<>> THEN acc
    ELSE IF Head(rest) = ".." THEN ResolveFrom(Parent(acc), Tail(rest))
    ELSE IF Head(rest) = "." THEN ResolveFrom(acc, Tail(rest))
    ELSE ResolveFrom(Append(acc, Head(rest)), Tail(rest))

\* Path.resolve(): collapse "." and ".." components
Resolve(path) == ResolveFrom(<<>>, path)

RECURSIVE UpDirs(_)
UpDirs(n) == IF n = 0 THEN <<>> ELSE <<"..">> \o UpDirs(n - 1)

\* git rev-parse --git-common-dir run with cwd: relative to cwd inside the
\* main checkout, absolute inside a linked worktree, an error elsewhere
GitCommonDir(cwd) ==
    IF IsPrefix(MainRoot, cwd)
    THEN [ok |-> TRUE, abs |-> FALSE,
          parts |-> UpDirs(Len(cwd) - Len(MainRoot)) \o <<".git">>]
    ELSE IF \E w \in LinkedWorktrees : IsPrefix(w, cwd)
    THEN [ok |-> TRUE, abs |-> TRUE, parts |-> MainRoot \o <<".git">>]
    ELSE [ok |-> FALSE, abs |-> FALSE, parts |-> <<>>]

discover_repo_root(start) ==
    LET r == GitCommonDir(start)
        git_common_dir == IF r.abs THEN r.parts ELSE Resolve(start \o r.parts)
    IN  IF r.ok THEN [ok |-> TRUE, path |-> Parent(git_common_dir)]
        ELSE [ok |-> FALSE, path |-> NoPath]

\* Faulty variant: the lock file is put under repo_root/.git of the given checkout
get_lock_path_of_checkout(repo_root) ==
    [ok |-> TRUE, path |-> repo_root \o <<".git", "wt.lock">>]

get_lock_path(repo_root) ==
    LET r == GitCommonDir(repo_root)
        git_common_dir == IF r.abs THEN r.parts ELSE Resolve(repo_root \o r.parts)
    IN  IF r.ok THEN [ok |-> TRUE, path |-> git_common_dir \o <<"wt.lock">>]
        ELSE [ok |-> FALSE, path |-> NoPath]

-----------------------------------------------------------------------------
(* Process ids and their decimal text *)

\* os.getpid() of invocation p
Pid(p) == p

RECURSIVE Str(_)
\* str(n): the decimal digits of n
Str(n) == IF n < 10 THEN <<n>> ELSE Append(Str(n \div 10), n % 10)

RECURSIVE IntOf(_)
\* int(content) for a string of decimal digits
IntOf(digits) ==
    IF digits = <<>> THEN 0
    ELSE 10 * IntOf(SubSeq(digits, 1, Len(digits) - 1)) + digits[Len(digits)]

\* int(content) raises ValueError unless every character is a decimal digit
IsInt(content) == content # <<>> /\ \A i \in 1..Len(content) : content[i] \in 0..9

Alive(q) == pc[q] \notin {"idle", "exited"}

\* Faulty variant: the handle test is inverted, a missing process counts as alive
process_exists_inverted(pid) == ~\E q \in Procs : Pid(q) = pid /\ Alive(q)

\* _process_exists_windows: OpenProcess(pid) returns a handle
process_exists_windows(pid) == \E q \in Procs : Pid(q) = pid /\ Alive(q)

-----------------------------------------------------------------------------
(* Commands of main() and the mutating steps each one executes, in order *)

Commands == {"new", "list", "status", "rm", "prune-merged", "pull-main",
             "where", "open", "gc", "doctor", "hooks-init", "hooks-list"}

Steps(cmd) ==
    CASE cmd = "new" -> <<"fetch", "rmdir", "mkdir", "worktree_add",
                          "set_upstream", "vscode_settings", "hooks">>
      [] cmd = "status" -> <<"fetch">>
      [] cmd = "rm" -> <<"worktree_remove", "branch_delete">>
      [] cmd = "prune-merged" -> <<"fetch", "worktree_remove", "branch_delete">>
      [] cmd = "pull-main" -> <<"fetch", "stash_push", "update", "stash_pop">>
      [] cmd = "gc" -> <<"worktree_prune", "rmdir">>
      [] cmd = "hooks-init" -> <<"mkdir", "write_template">>
      [] OTHER -> <<>>

ExitPaths == {"return", "sysexit", "GitError", "exception"}

-----------------------------------------------------------------------------
(* Initial state: no invocation started, no lock file *)

\* no hook pipeline is running
HooksIdle ==
    /\ hpc = "off"
    /\ local_config_path = FALSE
    /\ local_hook_dir = [is_dir |-> FALSE, entries |-> {}]
    /\ global_hook_dir = [is_dir |-> FALSE, entries |-> {}]
    /\ continue_on_error = FALSE
    /\ hooks = <<>>
    /\ idx = 0
    /\ child = 0
    /\ started = <<>>
    /\ outcomes = <<>>
    /\ captured = <<>>
    /\ out = <<>>

\* no list, status, pull-main, prune-merged or rm run is under way
CmdIdle ==
    /\ cpc = "off"
    /\ copts = [command |-> "none"]
    /\ cworld = <<>>
    /\ porcelain = <<>>
    /\ worktrees = [ok |-> TRUE, records |-> <<>>]
    /\ ci = 0
    /\ statuses = <<>>
    /\ shown = <<>>
    /\ cgit = <<>>
    /\ cerror = "none"
    /\ cexit = -1

\* no function is examined on its own
PureIdle ==
    /\ call = [function |-> "none"]
    /\ answer = [done |-> FALSE]

\* no new-worktree run is under way
NewIdle ==
    /\ npc = "off"
    /\ args = [branch |-> <<>>, from_branch |-> <<>>, force |-> FALSE, track |-> FALSE]
    /\ cfg = [auto_prefix |-> <<>>, template |-> <<>>, vscode |-> "absent"]
    /\ remote = {}
    /\ repo = [remote_refs |-> {}, branches |-> {}, tags |-> {}, worktrees |-> {},
               dest |-> "absent", parents |-> FALSE, upstream |-> FALSE,
               settings |-> FALSE]
    /\ repo0 = repo
    /\ clock = 0
    /\ git_branch_name = <<>>
    /\ source_branch = <<>>
    /\ worktree_path = <<>>
    /\ path_context = <<>>
    /\ hook_context = <<>>
    /\ printed = <<>>
    /\ error = "none"
    /\ exit_status = -1

InitLock ==
    /\ platform \in {"unix", "win32"}
    /\ pc = [p \in Procs |-> "idle"]
    /\ lock_path = [p \in Procs |-> NoPath]
    /\ lock_file = [p \in Procs |-> FALSE]
    /\ acquired = [p \in Procs |-> FALSE]
    /\ attempt = [p \in Procs |-> 0]
    /\ todo = [p \in Procs |-> 0]
    /\ exitKind = [p \in Procs |-> "none"]
    /\ origin = [p \in Procs |-> NoPath]
    /\ flock = {}
    /\ files = <<>>
    /\ readable \in BOOLEAN

Init == InitLock /\ HooksIdle /\ NewIdle /\ CmdIdle /\ PureIdle

-----------------------------------------------------------------------------
(* Lock file and kernel lock helpers *)

\* open(lock_path, "a"): the file is created empty when it does not exist
OpenAppend(path) == IF path \in DOMAIN files THEN files ELSE (path :> <<>>) @@ files

\* another process has the lock file open
OpenElsewhere(path, p) == \E q \in Procs \ {p} : lock_file[q] /\ lock_path[q] = path

\* Faulty variant: the lock is taken shared (LOCK_SH), which never conflicts
FlockConflictShared(path, p) == FALSE

\* fcntl.flock(fd, LOCK_EX | LOCK_NB) fails: another open file holds the lock
FlockConflict(path, p) == \E q \in Procs \ {p} : <<path, q>> \in flock

\* lock_path.unlink(missing_ok=True): on win32 a file that another process
\* has open cannot be deleted, the OSError is swallowed by release()
Unlink(path, p) ==
    IF OpenElsewhere(path, p) THEN files
    ELSE [x \in DOMAIN files \ {path} |-> files[x]]

\* the kernel closes the files of a terminated process
CloseAll(p) == {e \in flock : e[2] # p}

\* the process ends: by an uncaught exception, sys.exit or a signal
Ended(p, kind) ==
    /\ pc' = [pc EXCEPT ![p] = "exited"]
    /\ exitKind' = [exitKind EXCEPT ![p] = kind]
    /\ lock_file' = [lock_file EXCEPT ![p] = FALSE]
    /\ acquired' = [acquired EXCEPT ![p] = FALSE]
    /\ attempt' = [attempt EXCEPT ![p] = 0]
    /\ origin' = [origin EXCEPT ![p] = NoPath]
    /\ todo' = [todo EXCEPT ![p] = 0]
    /\ flock' = CloseAll(p)

-----------------------------------------------------------------------------
(* main(): discovery, configuration, construction of the RepoLock *)

Main(p, start, cmd) ==
    /\ pc[p] = "idle"
    /\ LET d == discover_repo_root(start)
           repo_root == IF d.ok THEN d.path ELSE start
           l == get_lock_path(repo_root)
       IN  IF ~d.ok /\ cmd # "doctor"
           THEN Ended(p, "DiscoveryError") /\ UNCHANGED lock_path
           ELSE IF ~l.ok
           THEN Ended(p, "LockError") /\ UNCHANGED lock_path
           ELSE /\ pc' = [pc EXCEPT ![p] = "enter"]
                /\ lock_path' = [lock_path EXCEPT ![p] = l.path]
                /\ origin' = [origin EXCEPT ![p] = start]
                /\ UNCHANGED <<lock_file, acquired, attempt, todo, exitKind, flock>>
    /\ UNCHANGED <<platform, files, readable>>
    /\ UNCHANGED hookVars
    /\ UNCHANGED newVars
    /\ UNCHANGED cmdVars
    /\ UNCHANGED pureVars

\* RepoLock(repo_root) constructed on the root of a checkout by a caller
\* other than main(); the body of its with block is modelled as a command
RepoLockInit(p, repo_root) ==
    /\ pc[p] = "idle"
    /\ LET l == get_lock_path(repo_root)
       IN  /\ l.ok
           /\ pc' = [pc EXCEPT ![p] = "enter"]
           /\ lock_path' = [lock_path EXCEPT ![p] = l.path]
           /\ origin' = [origin EXCEPT ![p] = repo_root]
    /\ UNCHANGED <<platform, lock_file, acquired, attempt, todo, exitKind,
                   flock, files, readable>>
    /\ UNCHANGED hookVars
    /\ UNCHANGED newVars
    /\ UNCHANGED cmdVars
    /\ UNCHANGED pureVars

-----------------------------------------------------------------------------
(* RepoLock.acquire on the native path *)

\* Faulty variant: a busy lock is polled again instead of failing at once
AcquireUnixRetry(p) ==
    /\ platform = "unix"
    /\ pc[p] = "enter"
    /\ files' = OpenAppend(lock_path[p])
    /\ IF FlockConflict(lock_path[p], p)
       THEN IF attempt[p] + 1 < MaxAttempts
            THEN /\ attempt' = [attempt EXCEPT ![p] = attempt[p] + 1]
                 /\ UNCHANGED <<pc, lock_file, acquired, todo, exitKind, origin, flock>>
            ELSE Ended(p, "LockError")
       ELSE /\ flock' = flock \cup {<<lock_path[p], p>>}
            /\ lock_file' = [lock_file EXCEPT ![p] = TRUE]
            /\ acquired' = [acquired EXCEPT ![p] = TRUE]
            /\ pc' = [pc EXCEPT ![p] = "dispatch"]
            /\ origin' = [origin EXCEPT ![p] = NoPath]
            /\ attempt' = [attempt EXCEPT ![p] = 0]
            /\ UNCHANGED <<todo, exitKind>>
    /\ UNCHANGED <<platform, lock_path, readable>>
    /\ UNCHANGED hookVars
    /\ UNCHANGED newVars
    /\ UNCHANGED cmdVars
    /\ UNCHANGED pureVars

\* Faulty variant: the error of flock is swallowed and acquire() carries on
AcquireUnixSwallow(p) ==
    /\ platform = "unix"
    /\ pc[p] = "enter"
    /\ files' = OpenAppend(lock_path[p])
    /\ flock' = IF FlockConflict(lock_path[p], p) THEN flock
                ELSE flock \cup {<<lock_path[p], p>>}
    /\ lock_file' = [lock_file EXCEPT ![p] = ~FlockConflict(lock_path[p], p)]
    /\ acquired' = [acquired EXCEPT ![p] = TRUE]
    /\ pc' = [pc EXCEPT ![p] = "dispatch"]
    /\ origin' = [origin EXCEPT ![p] = NoPath]
    /\ UNCHANGED <<attempt, todo, exitKind>>
    /\ UNCHANGED <<platform, lock_path, readable>>
    /\ UNCHANGED hookVars
    /\ UNCHANGED newVars
    /\ UNCHANGED cmdVars
    /\ UNCHANGED pureVars

AcquireUnix(p) ==
    /\ platform = "unix"
    /\ pc[p] = "enter"
    /\ files' = OpenAppend(lock_path[p])
    /\ IF FlockConflict(lock_path[p], p)
       THEN Ended(p, "LockError")
       ELSE /\ flock' = flock \cup {<<lock_path[p], p>>}
            /\ lock_file' = [lock_file EXCEPT ![p] = TRUE]
            /\ acquired' = [acquired EXCEPT ![p] = TRUE]
            /\ pc' = [pc EXCEPT ![p] = "dispatch"]
            /\ origin' = [origin EXCEPT ![p] = NoPath]
            /\ UNCHANGED <<attempt, todo, exitKind>>
    /\ UNCHANGED <<platform, lock_path, readable>>
    /\ UNCHANGED hookVars
    /\ UNCHANGED newVars
    /\ UNCHANGED cmdVars
    /\ UNCHANGED pureVars

-----------------------------------------------------------------------------
(* RepoLock.acquire on the PID-file path *)

AcquireOpenWindows(p) ==
    /\ platform = "win32"
    /\ pc[p] = "enter"
    /\ files' = OpenAppend(lock_path[p])
    /\ lock_file' = [lock_file EXCEPT ![p] = TRUE]
    /\ pc' = [pc EXCEPT ![p] = "win_check"]
    /\ origin' = [origin EXCEPT ![p] = NoPath]
    /\ UNCHANGED <<platform, lock_path, acquired, attempt, todo, exitKind,
                   flock, readable>>
    /\ UNCHANGED hookVars
    /\ UNCHANGED newVars
    /\ UNCHANGED cmdVars
    /\ UNCHANGED pureVars

\* Faulty variant: the ceiling test is off by one (attempt == max_attempts)
IsLastAttemptOffByOne(a) == a = MaxAttempts

\* attempt == max_attempts - 1
IsLastAttempt(a) == a = MaxAttempts - 1

\* raise LockError: it leaves acquire() and main() uncaught
LoopRaise(p) == Ended(p, "LockError")

\* _acquire_windows returns; acquire() sets self.acquired
LoopReturn(p) ==
    /\ pc' = [pc EXCEPT ![p] = "dispatch"]
    /\ acquired' = [acquired EXCEPT ![p] = TRUE]
    /\ attempt' = [attempt EXCEPT ![p] = 0]
    /\ UNCHANGED <<lock_file, todo, exitKind, origin, flock>>

\* time.sleep(0.1), then the next value of range(max_attempts); when the
\* range is exhausted the function returns
LoopNext(p) ==
    IF attempt[p] + 1 < MaxAttempts
    THEN /\ attempt' = [attempt EXCEPT ![p] = attempt[p] + 1]
         /\ pc' = [pc EXCEPT ![p] = "win_check"]
         /\ UNCHANGED <<lock_file, acquired, todo, exitKind, origin, flock>>
    ELSE LoopReturn(p)

\* the lock is refused on this attempt (rival alive, or an error was caught)
LoopRetry(p) == IF IsLastAttempt(attempt[p]) THEN LoopRaise(p) ELSE LoopNext(p)

\* the recorded PID denotes a live process
RivalAlive(path) ==
    /\ path \in DOMAIN files
    /\ files[path] # <<>>
    /\ IsInt(files[path])
    /\ process_exists_windows(IntOf(files[path]))

\* int(content) raises ValueError
ParseFails(path) ==
    /\ path \in DOMAIN files
    /\ files[path] # <<>>
    /\ ~IsInt(files[path])

\* lines 116-128: exists(), read_text(), int(), _process_exists_windows
WinCheck(p) ==
    /\ platform = "win32"
    /\ pc[p] = "win_check"
    /\ IF ~readable \/ ParseFails(lock_path[p]) \/ RivalAlive(lock_path[p])
       THEN LoopRetry(p)
       ELSE /\ pc' = [pc EXCEPT ![p] = "win_write"]
            /\ UNCHANGED <<lock_file, acquired, attempt, todo, exitKind,
                           origin, flock>>
    /\ UNCHANGED <<platform, lock_path, files, readable>>
    /\ UNCHANGED hookVars
    /\ UNCHANGED newVars
    /\ UNCHANGED cmdVars
    /\ UNCHANGED pureVars

\* lines 130-133: write(str(pid)), flush(), return
WinWrite(p) ==
    /\ platform = "win32"
    /\ pc[p] = "win_write"
    /\ files' = [files EXCEPT ![lock_path[p]] = @ \o Str(Pid(p))]
    /\ LoopReturn(p)
    /\ UNCHANGED <<platform, lock_path, readable>>
    /\ UNCHANGED hookVars
    /\ UNCHANGED newVars
    /\ UNCHANGED cmdVars
    /\ UNCHANGED pureVars

-----------------------------------------------------------------------------
(* The body of the with block of main(): command dispatch *)

\* the if/elif chain on args.command calls the command's function
Dispatch(p, cmd) ==
    /\ pc[p] = "dispatch"
    /\ pc' = [pc EXCEPT ![p] = "command"]
    /\ todo' = [todo EXCEPT ![p] = Len(Steps(cmd))]
    /\ UNCHANGED <<platform, lock_path, lock_file, acquired, attempt,
                   exitKind, origin, flock, files, readable>>
    /\ UNCHANGED hookVars
    /\ UNCHANGED newVars
    /\ UNCHANGED cmdVars
    /\ UNCHANGED pureVars

\* the command executes its next mutating step
DoStep(p) ==
    /\ pc[p] = "command"
    /\ todo[p] > 0
    /\ todo' = [todo EXCEPT ![p] = todo[p] - 1]
    /\ UNCHANGED <<platform, pc, lock_path, lock_file, acquired, attempt,
                   exitKind, origin, flock, files, readable>>
    /\ UNCHANGED hookVars
    /\ UNCHANGED newVars
    /\ UNCHANGED cmdVars
    /\ UNCHANGED pureVars

\* RepoLock.release
release(p) ==
    IF ~acquired[p] \/ ~lock_file[p]
    THEN UNCHANGED <<flock, lock_file, files, acquired>>
    ELSE /\ flock' = IF platform # "win32" THEN flock \ {<<lock_path[p], p>>} ELSE flock
         /\ lock_file' = [lock_file EXCEPT ![p] = FALSE]
         /\ files' = IF platform = "win32" THEN Unlink(lock_path[p], p) ELSE files
         /\ acquired' = [acquired EXCEPT ![p] = FALSE]

\* Faulty variant: the lock is released only when the body ended without exception
exit_on_success_only(p, exc_type) ==
    IF exc_type = "return" THEN release(p)
    ELSE UNCHANGED <<flock, lock_file, files, acquired>>

\* RepoLock.__exit__(exc_type, ...): called by the with statement however
\* the body ended
exit__(p, exc_type) == release(p)

\* the command ends: it returns, calls sys.exit(1), or raises; the chain
\* itself calls sys.exit(1) for an unknown hooks subcommand
Finish(p, kind) ==
    /\ pc[p] \in {"dispatch", "command"}
    /\ pc[p] = "dispatch" => kind = "sysexit"
    /\ exit__(p, kind)
    /\ pc' = [pc EXCEPT ![p] = "released"]
    /\ exitKind' = [exitKind EXCEPT ![p] = kind]
    /\ todo' = [todo EXCEPT ![p] = 0]
    /\ UNCHANGED <<platform, lock_path, attempt, origin, readable>>
    /\ UNCHANGED hookVars
    /\ UNCHANGED newVars
    /\ UNCHANGED cmdVars
    /\ UNCHANGED pureVars

\* the interpreter exits after the with statement
Terminate(p) ==
    /\ pc[p] = "released"
    /\ pc' = [pc EXCEPT ![p] = "exited"]
    /\ flock' = CloseAll(p)
    /\ lock_file' = [lock_file EXCEPT ![p] = FALSE]
    /\ acquired' = [acquired EXCEPT ![p] = FALSE]
    /\ UNCHANGED <<platform, lock_path, attempt, todo, exitKind, origin,
                   files, readable>>
    /\ UNCHANGED hookVars
    /\ UNCHANGED newVars
    /\ UNCHANGED cmdVars
    /\ UNCHANGED pureVars

\* the process is killed from outside: no Python code runs
Kill(p) ==
    /\ Alive(p)
    /\ Ended(p, "killed")
    /\ UNCHANGED <<platform, lock_path, files, readable>>
    /\ UNCHANGED hookVars
    /\ UNCHANGED newVars
    /\ UNCHANGED cmdVars
    /\ UNCHANGED pureVars

-----------------------------------------------------------------------------
(* Hook discovery (wt/hooks.py) *)

\* file names as sequences of character codes
FileNames == {<<0>>, <<0, 1>>, <<1>>}

\* "exec": regular file with the execute bit; "plain": regular file without
\* it; "dir": a subdirectory (is_file() is false)
Kinds == {"exec", "plain", "dir"}

Entries == [name : FileNames, kind : Kinds]

\* the possible contents of a hook directory, or no directory at all
Listings ==
    {[is_dir |-> FALSE, entries |-> {}]} \cup
    {[is_dir |-> TRUE, entries |-> d] :
        d \in {e \in SUBSET Entries :
                 /\ Cardinality(e) <= MaxEntries
                 /\ \A x, y \in e : x.name = y.name => x = y}}

RECURSIVE LexLess(_, _)
\* a < b for strings: the first differing character decides, a proper
\* prefix is smaller
LexLess(a, b) ==
    IF b = <<>> THEN FALSE
    ELSE IF a = <<>> THEN TRUE
    ELSE IF Head(a) = Head(b) THEN LexLess(Tail(a), Tail(b))
    ELSE Head(a) < Head(b)

RECURSIVE sorted_reverse(_)
\* Faulty variant: the entries are taken in descending order
sorted_reverse(entries) ==
    IF entries = {} THEN <<>>
    ELSE LET m == CHOOSE x \in entries :
                    \A y \in entries \ {x} : LexLess(y.name, x.name)
         IN  <<m>> \o sorted_reverse(entries \ {m})

RECURSIVE sorted(_)
\* sorted(directory.iterdir())
sorted(entries) ==
    IF entries = {} THEN <<>>
    ELSE LET m == CHOOSE x \in entries :
                    \A y \in entries \ {x} : LexLess(x.name, y.name)
         IN  <<m>> \o sorted(entries \ {m})

IsExec(e) == e.kind = "exec"

IsPlain(e) == e.kind = "plain"

Tagged(seq, tier) == [i \in 1..Len(seq) |-> [tier |-> tier, name |-> seq[i].name]]

collect_executable_hooks(directory, tier) ==
    Tagged(SelectSeq(sorted(directory.entries), IsExec), tier)

\* the model's file names have no suffix and are not hidden
collect_non_executable_hooks(directory, tier) ==
    Tagged(SelectSeq(sorted(directory.entries), IsPlain), tier)

discover_hooks ==
    (IF local_config_path /\ local_hook_dir.is_dir
     THEN collect_executable_hooks(local_hook_dir, "local") ELSE <<>>)
    \o
    (IF global_hook_dir.is_dir
     THEN collect_executable_hooks(global_hook_dir, "global") ELSE <<>>)

find_non_executable_hooks ==
    (IF local_config_path /\ local_hook_dir.is_dir
     THEN collect_non_executable_hooks(local_hook_dir, "local") ELSE <<>>)
    \o
    (IF global_hook_dir.is_dir
     THEN collect_non_executable_hooks(global_hook_dir, "global") ELSE <<>>)

-----------------------------------------------------------------------------
(* Hook execution (wt/hooks.py) *)

HookFailures == {"nonzero", "timeout", "launch"}

Warnings(seq, what) == [i \in 1..Len(seq) |-> <<what, seq[i]>>]

\* run_post_create_hooks is called: its arguments and the two directories
HooksStart ==
    /\ hpc = "start"
    /\ local_config_path \in BOOLEAN
    /\ local_hook_dir \in Listings
    /\ global_hook_dir \in Listings
    /\ continue_on_error \in BOOLEAN
    /\ hooks = <<>>
    /\ idx = 0
    /\ child = 0
    /\ started = <<>>
    /\ outcomes = <<>>
    /\ captured = <<>>
    /\ out = <<>>

\* the lock model stands still while the hook pipeline is examined
LockIdle ==
    /\ platform = "unix"
    /\ pc = [p \in Procs |-> "idle"]
    /\ lock_path = [p \in Procs |-> NoPath]
    /\ lock_file = [p \in Procs |-> FALSE]
    /\ acquired = [p \in Procs |-> FALSE]
    /\ attempt = [p \in Procs |-> 0]
    /\ todo = [p \in Procs |-> 0]
    /\ exitKind = [p \in Procs |-> "none"]
    /\ origin = [p \in Procs |-> NoPath]
    /\ flock = {}
    /\ files = <<>>
    /\ readable = TRUE

\* run_post_create_hooks, lines 160-176: warnings, discovery, early return
RunPostCreateHooks ==
    /\ hpc = "start"
    /\ out' = Warnings(find_non_executable_hooks, "not_executable")
    /\ hooks' = discover_hooks
    /\ IF hooks' = <<>>
       THEN hpc' = "returned" /\ idx' = 0
       ELSE hpc' = "loop" /\ idx' = 1
    /\ UNCHANGED <<local_config_path, local_hook_dir, global_hook_dir,
                   continue_on_error, child, started, outcomes, captured>>
    /\ UNCHANGED lockVars
    /\ UNCHANGED newVars
    /\ UNCHANGED cmdVars
    /\ UNCHANGED pureVars

\* the for loop takes the next hook, or the function returns
LoopAdvance ==
    IF idx < Len(hooks)
    THEN hpc' = "loop" /\ idx' = idx + 1
    ELSE hpc' = "returned" /\ idx' = idx

\* Faulty variant: a timeout is reported as a warning even in fail-fast mode
OnHookErrorTimeoutWarns(kind) ==
    IF continue_on_error \/ kind = "timeout"
    THEN /\ out' = Append(out, <<"warning", hooks[idx]>>)
         /\ LoopAdvance
    ELSE /\ hpc' = "raised"
         /\ UNCHANGED <<idx, out>>

\* Faulty variant: the HookError is re-raised whatever the policy
OnHookErrorAlwaysRaise(kind) ==
    /\ hpc' = "raised"
    /\ UNCHANGED <<idx, out>>

\* except HookError in run_post_create_hooks: warn and go on, or re-raise
OnHookError(kind) ==
    IF continue_on_error
    THEN /\ out' = Append(out, <<"warning", hooks[idx]>>)
         /\ LoopAdvance
    ELSE /\ hpc' = "raised"
         /\ UNCHANGED <<idx, out>>

\* _run_hook calls subprocess.run: the child is launched, or the launch
\* raises (FileNotFoundError and the like) and becomes a HookError
HookStart(launched) ==
    /\ hpc = "loop"
    /\ started' = Append(started, hooks[idx])
    /\ IF launched
       THEN /\ child' = idx
            /\ hpc' = "running"
            /\ UNCHANGED <<idx, outcomes, captured, out>>
       ELSE /\ child' = 0
            /\ outcomes' = Append(outcomes, "launch")
            /\ captured' = Append(captured, FALSE)
            /\ OnHookError("launch")
    /\ UNCHANGED <<local_config_path, local_hook_dir, global_hook_dir,
                   continue_on_error, hooks>>
    /\ UNCHANGED lockVars
    /\ UNCHANGED newVars
    /\ UNCHANGED cmdVars
    /\ UNCHANGED pureVars

\* Faulty variant: a hook that timed out is run again
HookExitRetryTimeout(result, has_stdout) ==
    /\ hpc = "running"
    /\ outcomes' = Append(outcomes, result)
    /\ captured' = Append(captured, has_stdout)
    /\ IF result = "timeout" /\ Len(started) < Len(hooks) + 1
       THEN /\ started' = Append(started, hooks[idx])
            /\ UNCHANGED <<hpc, idx, child, out>>
       ELSE /\ child' = 0
            /\ started' = started
            /\ IF result = "ok"
               THEN /\ out' = IF has_stdout THEN Append(out, <<"stdout", hooks[idx]>>) ELSE out
                    /\ LoopAdvance
               ELSE OnHookError(result)
    /\ UNCHANGED <<local_config_path, local_hook_dir, global_hook_dir,
                   continue_on_error, hooks>>
    /\ UNCHANGED lockVars
    /\ UNCHANGED newVars
    /\ UNCHANGED cmdVars
    /\ UNCHANGED pureVars

\* subprocess.run returns after the child has exited, or kills it at the
\* timeout and raises TimeoutExpired; stdout is printed on success only
HookExit(result, has_stdout) ==
    /\ hpc = "running"
    /\ child' = 0
    /\ outcomes' = Append(outcomes, result)
    /\ captured' = Append(captured, has_stdout)
    /\ IF result = "ok"
       THEN /\ out' = IF has_stdout THEN Append(out, <<"stdout", hooks[idx]>>) ELSE out
            /\ LoopAdvance
       ELSE OnHookError(result)
    /\ UNCHANGED <<local_config_path, local_hook_dir, global_hook_dir,
                   continue_on_error, hooks, started>>
    /\ UNCHANGED lockVars
    /\ UNCHANGED newVars
    /\ UNCHANGED cmdVars
    /\ UNCHANGED pureVars

-----------------------------------------------------------------------------
(* The new-worktree workflow (wt/cli.py cmd_new): data *)

\* strings are sequences of pieces; a ref is <<"origin/", name>>
Sentinel == <<"origin/", "main">>

BaseRefs == {<<"origin/", "main">>, <<"origin/", "master">>, <<"origin/", "dev">>}

\* HEAD of a worktree that is on no branch
Detached == <<>>

\* a template is a sequence of literal pieces and $VARNAME placeholders
DefaultTemplate ==
    <<[var |-> TRUE, text |-> "WT_ROOT"], [var |-> FALSE, text |-> "/"],
      [var |-> TRUE, text |-> "BRANCH_NAME"]>>

Templates ==
    {DefaultTemplate,
     <<[var |-> TRUE, text |-> "WT_ROOT"], [var |-> FALSE, text |-> "/"],
       [var |-> TRUE, text |-> "TICKET"]>>}

\* get_default_config() as far as cmd_new reads it: it has no "vscode" table
DefaultConfig == [auto_prefix |-> <<>>, template |-> DefaultTemplate, vscode |-> "absent"]

RepoRoot == <<"/", "repo">>

\* str(n) of the time of day in seconds
TimeIso(t) == IF t = 0 THEN <<"00:00:00">> ELSE <<"00:00:01">>

\* default_wt_root: <parent>/<repo name>-worktrees
default_wt_root(repo_root) ==
    Parent(repo_root) \o <<repo_root[Len(repo_root)] \o "-worktrees">>

\* config["paths"]["worktree_root"] is empty in every modelled configuration
resolve_worktree_root(repo_root) == default_wt_root(repo_root)

build_template_context(repo_root, wt_root, branch_name, source, now) ==
    [REPO_ROOT |-> repo_root,
     REPO_NAME |-> <<repo_root[Len(repo_root)]>>,
     WT_ROOT |-> wt_root,
     BRANCH_NAME |-> branch_name,
     SOURCE_BRANCH |-> source,
     DATE_ISO |-> <<"2024-01-01">>,
     TIME_ISO |-> TimeIso(now)]

\* the same with context["WORKTREE_PATH"] set
build_template_context_with_path(repo_root, wt_root, branch_name, source, now, path) ==
    [REPO_ROOT |-> repo_root,
     REPO_NAME |-> <<repo_root[Len(repo_root)]>>,
     WT_ROOT |-> wt_root,
     BRANCH_NAME |-> branch_name,
     SOURCE_BRANCH |-> source,
     DATE_ISO |-> <<"2024-01-01">>,
     TIME_ISO |-> TimeIso(now),
     WORKTREE_PATH |-> path]

RECURSIVE render_path_template(_, _, _)
\* pattern.sub(replace_var, template): [ok, path]; ok is FALSE for ValueError
render_path_template(template, context, allow_unknown) ==
    IF template = <<>> THEN [ok |-> TRUE, path |-> <<>>]
    ELSE LET piece == Head(template)
             rest == render_path_template(Tail(template), context, allow_unknown)
             value == IF ~piece.var THEN <<piece.text>>
                      ELSE IF piece.text \in DOMAIN context THEN context[piece.text]
                      ELSE <<"$" \o piece.text>>
         IN  IF piece.var /\ piece.text \notin DOMAIN context /\ ~allow_unknown
             THEN [ok |-> FALSE, path |-> <<>>]
             ELSE [ok |-> rest.ok, path |-> IF rest.ok THEN value \o rest.path ELSE <<>>]

\* cmd_new lines 14-21: the auto_prefix is put in front unless already there
GitBranchName(branch, auto_prefix) ==
    IF auto_prefix # <<>> /\ ~IsPrefix(auto_prefix, branch)
    THEN auto_prefix \o branch
    ELSE branch

\* git rev-parse --verify <name> for a remote-tracking ref name
remote_ref_exists(name, r) == name \in r.remote_refs

\* git rev-parse --verify <name> for a short name: any ref of that name
\* resolves, a local branch or a tag
branch_exists(name, r) == name \in r.branches \cup r.tags

\* Faulty variant: master is probed before main
get_default_branch_master_first(r) ==
    IF remote_ref_exists(<<"origin/", "master">>, r) THEN <<"origin/", "master">>
    ELSE IF remote_ref_exists(<<"origin/", "main">>, r) THEN <<"origin/", "main">>
    ELSE <<"origin/", "main">>

\* for branch in ["main", "master"]: the first that exists, else origin/main
get_default_branch(r) ==
    IF remote_ref_exists(<<"origin/", "main">>, r) THEN <<"origin/", "main">>
    ELSE IF remote_ref_exists(<<"origin/", "master">>, r) THEN <<"origin/", "master">>
    ELSE <<"origin/", "main">>

\* Faulty variant: no worktree is ever found for the branch
worktree_path_for_branch_none(branch, r) == {}

\* the paths of the worktree records on the branch (the code returns the first)
worktree_path_for_branch(branch, r) ==
    {w.path : w \in {x \in r.worktrees : x.branch = branch}}

\* git worktree add: with -b a new branch is created from the source and
\* checked out; without it a local branch is checked out, and any other
\* commit-ish (a tag) gives a detached HEAD
create_worktree(r, path, branch, source, create_branch) ==
    [r EXCEPT
       !.branches = IF create_branch THEN r.branches \cup {branch} ELSE r.branches,
       !.worktrees = r.worktrees \cup
          {[path |-> path,
            branch |-> IF create_branch \/ branch \in r.branches
                       THEN branch ELSE Detached]},
       !.dest = "worktree"]

-----------------------------------------------------------------------------
(* The new-worktree workflow: steps *)

\* what the destination path can be before the run
DestStates == {"absent", "empty", "nonempty", "file"}

\* what the target branch name can be before the run: unused, a local
\* branch, a tag, or a branch checked out in another worktree
TargetStates == {"none", "branch", "tag", "checked_out"}

MainCheckout == [path |-> RepoRoot, branch |-> <<"main">>]

\* the global hook directory of the workflow runs: none, or one hook
NewListings ==
    {[is_dir |-> FALSE, entries |-> {}],
     [is_dir |-> TRUE, entries |-> {[name |-> <<0>>, kind |-> "exec"]}]}

\* wt new is dispatched: arguments, configuration and repository
NewCalled ==
    /\ npc = "start"
    /\ args \in [branch : {<<"f">>, <<"u/", "f">>},
                 from_branch : {Sentinel, <<"origin/", "dev">>},
                 force : BOOLEAN, track : BOOLEAN]
    /\ cfg \in [auto_prefix : {<<>>, <<"u/">>}, template : Templates,
                vscode : {"absent", "off", "on"}]
    \* a branch typed with the prefix only where a prefix is configured
    /\ cfg.auto_prefix = <<>> => args.branch = <<"f">>
    /\ \E target \in TargetStates, dest \in DestStates, fresh \in BOOLEAN :
          LET g == GitBranchName(args.branch, cfg.auto_prefix)
          IN  /\ remote \in SUBSET (BaseRefs \cup
                                      (IF args.track THEN {<<"origin/">> \o g} ELSE {}))
              /\ repo = [remote_refs |-> IF fresh THEN remote ELSE {},
                         branches |-> {<<"main">>} \cup
                            (IF target \in {"branch", "checked_out"} THEN {g} ELSE {}),
                         tags |-> IF target = "tag" THEN {g} ELSE {},
                         worktrees |-> {MainCheckout} \cup
                            (IF target = "checked_out"
                             THEN {[path |-> <<"/", "elsewhere">>, branch |-> g]}
                             ELSE {}),
                         dest |-> dest,
                         parents |-> dest # "absent",
                         upstream |-> FALSE,
                         settings |-> FALSE]
    /\ repo0 = repo
    /\ clock = 0
    /\ git_branch_name = <<>>
    /\ source_branch = <<>>
    /\ worktree_path = <<>>
    /\ path_context = <<>>
    /\ hook_context = <<>>
    /\ printed = <<>>
    /\ error = "none"
    /\ exit_status = -1

InitNew == LockIdle /\ HooksIdle /\ NewCalled /\ CmdIdle /\ PureIdle

\* sys.exit(1) after an error message, or an exception that leaves main()
NewFail(kind) ==
    /\ npc' = "failed"
    /\ error' = kind
    /\ exit_status' = 1

NewFrame ==
    /\ UNCHANGED <<args, cfg, remote, repo0>>
    /\ UNCHANGED lockVars
    /\ UNCHANGED cmdVars
    /\ UNCHANGED pureVars

\* lines 14-25: the git branch name, then git fetch origin --prune, which
\* brings the remote-tracking refs in line with the remote
NewFetch ==
    /\ npc = "start"
    /\ git_branch_name' = GitBranchName(args.branch, cfg.auto_prefix)
    /\ \E ok \in BOOLEAN :
          IF ok
          THEN /\ repo' = [repo EXCEPT !.remote_refs = remote]
               /\ npc' = "fetched"
               /\ UNCHANGED <<error, exit_status>>
          ELSE NewFail("GitError") /\ UNCHANGED repo
    /\ UNCHANGED <<clock, source_branch, worktree_path, path_context,
                   hook_context, printed>>
    /\ UNCHANGED hookVars
    /\ NewFrame

\* lines 27-35
NewResolveSource ==
    /\ npc = "fetched"
    /\ source_branch' = IF args.from_branch = Sentinel
                        THEN get_default_branch(repo)
                        ELSE args.from_branch
    /\ IF ~remote_ref_exists(source_branch', repo)
       THEN NewFail("SourceBranchMissing")
       ELSE npc' = "source" /\ UNCHANGED <<error, exit_status>>
    /\ UNCHANGED <<repo, clock, git_branch_name, worktree_path, path_context,
                   hook_context, printed>>
    /\ UNCHANGED hookVars
    /\ NewFrame

\* lines 37-45
NewCheckBranch ==
    /\ npc = "source"
    /\ IF worktree_path_for_branch(git_branch_name, repo) # {}
       THEN NewFail("BranchAlreadyCheckedOut")
       ELSE npc' = "checked" /\ UNCHANGED <<error, exit_status>>
    /\ UNCHANGED <<repo, clock, git_branch_name, source_branch, worktree_path,
                   path_context, hook_context, printed>>
    /\ UNCHANGED hookVars
    /\ NewFrame

\* line 48, paths.resolve_worktree_path with the branch name as typed
NewResolvePath ==
    /\ npc = "checked"
    /\ LET wt_root == resolve_worktree_root(RepoRoot)
           context == build_template_context(RepoRoot, wt_root, args.branch,
                                             source_branch, clock)
           r == render_path_template(cfg.template, context, FALSE)
       IN  IF r.ok
           THEN /\ worktree_path' = r.path
                /\ path_context' = context
                /\ npc' = "resolved"
                /\ UNCHANGED <<error, exit_status>>
           ELSE /\ NewFail("ValueError")
                /\ UNCHANGED <<worktree_path, path_context>>
    /\ UNCHANGED <<repo, clock, git_branch_name, source_branch, hook_context,
                   printed>>
    /\ UNCHANGED hookVars
    /\ NewFrame

\* Faulty variant: --force removes the destination whatever it holds
NewCheckDestForceAny ==
    /\ npc = "resolved"
    /\ IF repo.dest = "absent"
       THEN npc' = "dest_ok" /\ UNCHANGED <<repo, error, exit_status>>
       ELSE IF ~args.force
       THEN NewFail("DestinationExists") /\ UNCHANGED repo
       ELSE /\ repo' = [repo EXCEPT !.dest = "absent"]
            /\ npc' = "dest_ok"
            /\ UNCHANGED <<error, exit_status>>
    /\ UNCHANGED <<clock, git_branch_name, source_branch, worktree_path,
                   path_context, hook_context, printed>>
    /\ UNCHANGED hookVars
    /\ NewFrame

\* lines 50-58: an existing destination is removed only if --force is given
\* and it is an empty directory; iterdir() on a file raises
NewCheckDest ==
    /\ npc = "resolved"
    /\ IF repo.dest = "absent"
       THEN npc' = "dest_ok" /\ UNCHANGED <<repo, error, exit_status>>
       ELSE IF ~args.force
       THEN NewFail("DestinationExists") /\ UNCHANGED repo
       ELSE IF repo.dest = "file"
       THEN NewFail("NotADirectoryError") /\ UNCHANGED repo
       ELSE IF repo.dest = "empty"
       THEN /\ repo' = [repo EXCEPT !.dest = "absent"]
            /\ npc' = "dest_ok"
            /\ UNCHANGED <<error, exit_status>>
       ELSE NewFail("DestinationExists") /\ UNCHANGED repo
    /\ UNCHANGED <<clock, git_branch_name, source_branch, worktree_path,
                   path_context, hook_context, printed>>
    /\ UNCHANGED hookVars
    /\ NewFrame

\* lines 60-68: mkdir of the parents, then git worktree add, which can fail
NewCreateWorktree ==
    /\ npc = "dest_ok"
    /\ LET create_branch == ~branch_exists(git_branch_name, repo)
           made == [repo EXCEPT !.parents = TRUE]
       IN  \E ok \in BOOLEAN :
              IF ok
              THEN /\ repo' = create_worktree(made, worktree_path, git_branch_name,
                                              source_branch, create_branch)
                   /\ npc' = "added"
                   /\ UNCHANGED <<error, exit_status>>
              ELSE /\ repo' = made
                   /\ NewFail("GitError")
    /\ UNCHANGED <<clock, git_branch_name, source_branch, worktree_path,
                   path_context, hook_context, printed>>
    /\ UNCHANGED hookVars
    /\ NewFrame

\* lines 70-75
NewSetUpstream ==
    /\ npc = "added"
    /\ IF args.track /\ remote_ref_exists(<<"origin/">> \o git_branch_name, repo)
       THEN \E ok \in BOOLEAN :
               IF ok
               THEN /\ repo' = [repo EXCEPT !.upstream = TRUE]
                    /\ npc' = "tracked"
                    /\ UNCHANGED <<error, exit_status>>
               ELSE NewFail("GitError") /\ UNCHANGED repo
       ELSE npc' = "tracked" /\ UNCHANGED <<repo, error, exit_status>>
    /\ UNCHANGED <<clock, git_branch_name, source_branch, worktree_path,
                   path_context, hook_context, printed>>
    /\ UNCHANGED hookVars
    /\ NewFrame

\* lines 77-87: the hook context is built at a later reading of the clock,
\* with the git branch name; then vscode.create_vscode_settings, which
\* reads config["vscode"]
NewSettings ==
    /\ npc = "tracked"
    /\ clock' \in {clock, 1}
    /\ hook_context' =
          build_template_context_with_path(RepoRoot, resolve_worktree_root(RepoRoot),
                                           git_branch_name, source_branch, clock',
                                           worktree_path)
    /\ IF cfg.vscode = "absent"
       THEN NewFail("KeyError") /\ UNCHANGED repo
       ELSE /\ repo' = [repo EXCEPT !.settings = (cfg.vscode = "on")]
            /\ npc' = "hooks_call"
            /\ UNCHANGED <<error, exit_status>>
    /\ UNCHANGED <<git_branch_name, source_branch, worktree_path, path_context,
                   printed>>
    /\ UNCHANGED hookVars
    /\ NewFrame

\* lines 89-96: the call of hooks.run_post_create_hooks, in a repository
\* that has no hook directory of its own
NewRunHooks ==
    /\ npc = "hooks_call"
    /\ hpc = "off"
    /\ hpc' = "start"
    /\ npc' = "hooks"
    /\ local_config_path' \in BOOLEAN
    /\ local_hook_dir' = [is_dir |-> FALSE, entries |-> {}]
    /\ global_hook_dir' \in NewListings
    /\ continue_on_error' \in BOOLEAN
    /\ UNCHANGED <<hooks, idx, child, started, outcomes, captured, out>>
    /\ UNCHANGED <<repo, clock, git_branch_name, source_branch, worktree_path,
                   path_context, hook_context, printed, error, exit_status>>
    /\ NewFrame

\* Faulty variant: a HookError is reported but the run goes on as after success
NewAfterHooksIgnoreError ==
    /\ npc = "hooks"
    /\ hpc \in {"returned", "raised"}
    /\ printed' = Append(printed, worktree_path)
    /\ npc' = "done"
    /\ exit_status' = 0
    /\ error' = IF hpc = "raised" THEN "HookError" ELSE error
    /\ UNCHANGED <<repo, clock, git_branch_name, source_branch, worktree_path,
                   path_context, hook_context>>
    /\ UNCHANGED hookVars
    /\ NewFrame

\* lines 97-101: except HookError: sys.exit(1); otherwise print(worktree_path)
\* and return to main(), which exits with status 0
NewAfterHooks ==
    /\ npc = "hooks"
    /\ hpc \in {"returned", "raised"}
    /\ IF hpc = "raised"
       THEN NewFail("HookError") /\ UNCHANGED printed
       ELSE /\ printed' = Append(printed, worktree_path)
            /\ npc' = "done"
            /\ exit_status' = 0
            /\ UNCHANGED error
    /\ UNCHANGED <<repo, clock, git_branch_name, source_branch, worktree_path,
                   path_context, hook_context>>
    /\ UNCHANGED hookVars
    /\ NewFrame

\* cmd_new at the call of run_post_create_hooks (line 90) in a run of
\* `wt new f` that created the worktree and its branch
NewAtHooks ==
    LET before == [remote_refs |-> {Sentinel}, branches |-> {<<"main">>},
                   tags |-> {}, worktrees |-> {MainCheckout}, dest |-> "absent",
                   parents |-> FALSE, upstream |-> FALSE, settings |-> FALSE]
        wt_root == resolve_worktree_root(RepoRoot)
        context == build_template_context(RepoRoot, wt_root, <<"f">>, Sentinel, 0)
        path == render_path_template(DefaultTemplate, context, FALSE).path
    IN  /\ npc = "hooks"
        /\ args = [branch |-> <<"f">>, from_branch |-> Sentinel,
                   force |-> FALSE, track |-> FALSE]
        /\ cfg = [auto_prefix |-> <<>>, template |-> DefaultTemplate, vscode |-> "off"]
        /\ remote = {Sentinel}
        /\ repo0 = before
        /\ repo = create_worktree([before EXCEPT !.parents = TRUE], path, <<"f">>,
                                  Sentinel, TRUE)
        /\ clock = 0
        /\ git_branch_name = <<"f">>
        /\ source_branch = Sentinel
        /\ worktree_path = path
        /\ path_context = context
        /\ hook_context = build_template_context_with_path(RepoRoot, wt_root, <<"f">>,
                                                           Sentinel, 0, path)
        /\ printed = <<>>
        /\ error = "none"
        /\ exit_status = -1

InitHooks == LockIdle /\ HooksStart /\ NewAtHooks /\ CmdIdle /\ PureIdle

NextHooks ==
    \/ RunPostCreateHooks
    \/ \E launched \in BOOLEAN : HookStart(launched)
    \/ \E result \in {"ok", "nonzero", "timeout"}, has_stdout \in BOOLEAN :
          HookExit(result, has_stdout)
    \/ NewAfterHooks

SpecHooks == InitHooks /\ [][NextHooks]_vars

NextNew ==
    \/ NewFetch
    \/ NewResolveSource
    \/ NewCheckBranch
    \/ NewResolvePath
    \/ NewCheckDest
    \/ NewCreateWorktree
    \/ NewSetUpstream
    \/ NewSettings
    \/ NewRunHooks
    \/ RunPostCreateHooks
    \/ \E launched \in BOOLEAN : HookStart(launched)
    \/ \E result \in {"ok", "nonzero", "timeout"}, has_stdout \in BOOLEAN :
          HookExit(result, has_stdout)
    \/ NewAfterHooks

SpecNew == InitNew /\ [][NextNew]_vars

-----------------------------------------------------------------------------
(* Worktree enumeration (wt/gitutil.py list_worktrees) *)

\* longest output of `git worktree list --porcelain` that is examined
MaxLines == 5

\* Python's None; every value the parser stores is a sequence of pieces
None == <<>>

\* a line of the output: the prefix the parser recognises, and the rest
Blank == [key |-> "", value |-> <<>>]
WorktreeLine(path) == [key |-> "worktree", value |-> path]
HeadLine == [key |-> "HEAD", value |-> <<"sha">>]
BranchLine(name) == [key |-> "branch", value |-> <<"refs/heads/">> \o name]
BareLine == [key |-> "bare", value |-> <<>>]
LockedLine == [key |-> "locked", value |-> <<"reason">>]
\* "locked" with no reason: no prefix of the if/elif chain matches it
LockedMarker == [key |-> "other", value |-> <<"locked">>]

PorcelainLines ==
    {Blank, WorktreeLine(<<"/a">>), WorktreeLine(<<"/b">>), HeadLine,
     BranchLine(<<"f">>), BareLine, LockedLine, LockedMarker}

LineSeqs == UNION {[1..n -> PorcelainLines] : n \in 0..MaxLines}

\* git() returns result.stdout.strip(): no blank line at either end
RECURSIVE Strip(_)
Strip(lines) ==
    IF lines = <<>> THEN <<>>
    ELSE IF Head(lines) = Blank THEN Strip(Tail(lines))
    ELSE IF lines[Len(lines)] = Blank THEN Strip(SubSeq(lines, 1, Len(lines) - 1))
    ELSE lines

\* the dict `current`
EmptyDict == [k \in {} |-> None]
Put(d, k, v) == [x \in DOMAIN d \cup {k} |-> IF x = k THEN v ELSE d[x]]
Get(d, k, default) == IF k \in DOMAIN d THEN d[k] ELSE default

\* current["worktree"] and current["HEAD"] raise KeyError when missing
HasKeys(current) == {"worktree", "HEAD"} \subseteq DOMAIN current

WorktreeInfo(current) ==
    [path |-> current["worktree"],
     branch |-> Get(current, "branch", None),
     sha |-> current["HEAD"],
     is_bare |-> Get(current, "bare", FALSE),
     locked |-> Get(current, "locked", None)]

\* the if/elif chain on the prefix of a non-empty line
SetLine(current, line) ==
    CASE line.key = "worktree" -> Put(current, "worktree", line.value)
      [] line.key = "HEAD" -> Put(current, "HEAD", line.value)
      [] line.key = "branch" ->
            Put(current, "branch",
                IF line.value # <<>> /\ Head(line.value) = "refs/heads/"
                THEN Tail(line.value) ELSE line.value)
      [] line.key = "bare" -> Put(current, "bare", TRUE)
      [] line.key = "locked" -> Put(current, "locked", line.value)
      [] OTHER -> current

KeyError == [ok |-> FALSE, records |-> <<>>]

\* the for loop over output.splitlines() and the flush after it
RECURSIVE ParseLines(_, _, _)
ParseLines(lines, current, acc) ==
    IF lines = <<>>
    THEN IF DOMAIN current = {} THEN [ok |-> TRUE, records |-> acc]
         ELSE IF HasKeys(current)
         THEN [ok |-> TRUE, records |-> Append(acc, WorktreeInfo(current))]
         ELSE KeyError
    ELSE IF Head(lines) = Blank
    THEN IF DOMAIN current = {} THEN ParseLines(Tail(lines), current, acc)
         ELSE IF HasKeys(current)
         THEN ParseLines(Tail(lines), EmptyDict, Append(acc, WorktreeInfo(current)))
         ELSE KeyError
    ELSE ParseLines(Tail(lines), SetLine(current, Head(lines)), acc)

list_worktrees(output) == ParseLines(Strip(output), EmptyDict, <<>>)

\* list_worktrees is called on what git printed
ParseCalled ==
    /\ cpc = "list_worktrees"
    /\ copts = [command |-> "list_worktrees"]
    /\ cworld = <<>>
    /\ porcelain \in LineSeqs
    /\ worktrees = [ok |-> TRUE, records |-> <<>>]
    /\ ci = 0
    /\ statuses = <<>>
    /\ shown = <<>>
    /\ cgit = <<>>
    /\ cerror = "none"
    /\ cexit = -1

InitParse == LockIdle /\ HooksIdle /\ NewIdle /\ ParseCalled /\ PureIdle

\* the call returns the records, or raises
ListWorktrees ==
    /\ cpc = "list_worktrees"
    /\ worktrees' = list_worktrees(porcelain)
    /\ cpc' = IF worktrees'.ok THEN "returned" ELSE "raised"
    /\ cerror' = IF worktrees'.ok THEN "none" ELSE "KeyError"
    /\ UNCHANGED <<copts, cworld, porcelain, ci, statuses, shown, cgit, cexit>>
    /\ UNCHANGED lockVars
    /\ UNCHANGED hookVars
    /\ UNCHANGED newVars
    /\ UNCHANGED pureVars

NextParse == ListWorktrees

SpecParse == InitParse /\ [][NextParse]_vars

-----------------------------------------------------------------------------
(* The list and status commands (wt/cli.py cmd_list, cmd_status,           *)
(* wt/status.py, wt/table.py)                                              *)

\* listings git prints: two worktrees, the second one locked; the second one
\* detached; a bare main entry followed by two worktrees, as git prints it
\* (no HEAD line) and with a HEAD line
PlainListing ==
    <<WorktreeLine(<<"/a">>), HeadLine, BranchLine(<<"main">>), Blank,
      WorktreeLine(<<"/b">>), HeadLine, BranchLine(<<"f">>), LockedLine>>
DetachedListing ==
    <<WorktreeLine(<<"/a">>), HeadLine, BranchLine(<<"main">>), Blank,
      WorktreeLine(<<"/b">>), HeadLine>>
BareListing ==
    <<WorktreeLine(<<"/r">>), BareLine, Blank,
      WorktreeLine(<<"/a">>), HeadLine, BranchLine(<<"main">>), Blank,
      WorktreeLine(<<"/b">>), HeadLine, BranchLine(<<"f">>)>>
BareHeadListing ==
    <<WorktreeLine(<<"/r">>), HeadLine, BareLine, Blank,
      WorktreeLine(<<"/a">>), HeadLine, BranchLine(<<"main">>), Blank,
      WorktreeLine(<<"/b">>), HeadLine, BranchLine(<<"f">>)>>

Porcelains == {PlainListing, DetachedListing, BareListing, BareHeadListing}

CheckoutPaths == {<<"/a">>, <<"/b">>}

\* what git answers in one checkout: rev-parse HEAD and status --porcelain
\* succeed or fail, the branch has an upstream or not, rev-list succeeds or
\* fails, and the true numbers of commits ahead of and behind the upstream and
\* behind the base
Healthy ==
    [sha_ok |-> TRUE, dirty |-> "clean", upstream |-> TRUE, revlist_ok |-> TRUE,
     ahead |-> 2, behind |-> 1, base_ok |-> TRUE, behind_base |-> 3]
Probes ==
    {Healthy,
     [Healthy EXCEPT !.dirty = "dirty", !.upstream = FALSE],
     [Healthy EXCEPT !.dirty = "fail"],
     [Healthy EXCEPT !.sha_ok = FALSE, !.dirty = "fail", !.revlist_ok = FALSE,
                     !.base_ok = FALSE],
     [Healthy EXCEPT !.revlist_ok = FALSE, !.base_ok = FALSE]}

\* git rev-list --left-right --count <upstream>...HEAD prints the commits only
\* in the upstream (left), then the commits only in HEAD (right)
RevListLeftRight(probe) == <<probe.behind, probe.ahead>>

\* Faulty variant: the two counts are returned in the opposite order
count_ahead_behind_swapped(probe) ==
    IF ~probe.upstream THEN <<0, 0>>
    ELSE IF probe.revlist_ok
    THEN <<RevListLeftRight(probe)[2], RevListLeftRight(probe)[1]>>
    ELSE <<0, 0>>

\* gitutil.count_ahead_behind: (behind, ahead), (0, 0) without upstream or when
\* rev-list fails
count_ahead_behind(probe) ==
    IF ~probe.upstream THEN <<0, 0>>
    ELSE IF probe.revlist_ok
    THEN <<RevListLeftRight(probe)[1], RevListLeftRight(probe)[2]>>
    ELSE <<0, 0>>

\* gitutil.count_behind_base: 0 when rev-list fails
count_behind_base(probe) == IF probe.base_ok THEN probe.behind_base ELSE 0

\* the git commands get_worktree_status runs in a checkout, up to the first
\* one whose failure is not caught
StatusOps(path, probe) ==
    IF ~probe.sha_ok THEN <<<<"rev-parse HEAD", path>>>>
    ELSE IF probe.dirty = "fail"
    THEN <<<<"rev-parse HEAD", path>>, <<"status", path>>>>
    ELSE <<<<"rev-parse HEAD", path>>, <<"status", path>>, <<"rev-parse @{u}", path>>>>
         \o (IF probe.upstream THEN <<<<"rev-list upstream", path>>>> ELSE <<>>)
         \o <<<<"rev-list base", path>>>>

\* status.get_worktree_status: get_current_sha and is_dirty propagate a
\* GitError, the divergence lookups do not
get_worktree_status(worktree_info, probe) ==
    IF ~probe.sha_ok \/ probe.dirty = "fail"
    THEN [ok |-> FALSE]
    ELSE LET counts == count_ahead_behind(probe)
             behind == counts[1]
             ahead == counts[2]
         IN  [ok |-> TRUE,
              status |-> [path |-> worktree_info.path,
                          branch |-> worktree_info.branch,
                          sha_short |-> worktree_info.sha,
                          is_dirty |-> probe.dirty = "dirty",
                          ahead |-> ahead,
                          behind |-> behind,
                          behind_main |-> count_behind_base(probe),
                          locked |-> worktree_info.locked]]

\* the dict cmd_list puts in the JSON array for a record: every record
JsonOfWorktree(wt) ==
    [path |-> wt.path, branch |-> wt.branch, sha |-> wt.sha,
     is_bare |-> wt.is_bare, locked |-> wt.locked]

\* the row print_list_table prints for a record
RowOfWorktree(wt) ==
    [path |-> wt.path,
     branch |-> IF wt.branch = None THEN <<"(detached)">> ELSE wt.branch,
     sha |-> wt.sha,
     locked |-> wt.locked]

NotBare(wt) == ~wt.is_bare

\* table.print_list_table: a message for an empty list, else a row for every
\* record that is not bare
print_list_table(records) ==
    IF records = <<>> THEN <<[message |-> "No worktrees found."]>>
    ELSE [i \in 1..Len(SelectSeq(records, NotBare)) |->
             RowOfWorktree(SelectSeq(records, NotBare)[i])]

\* the JSON array of cmd_list
list_json(records) == [i \in 1..Len(records) |-> JsonOfWorktree(records[i])]

\* list or status is called with its options; git will print one of the
\* listings and answer in the two checkouts as cworld says
StatusCalled ==
    /\ cpc = "start"
    /\ copts \in [command : {"list", "status"}, json : BOOLEAN]
    /\ cworld \in [CheckoutPaths -> Probes]
    /\ porcelain \in Porcelains
    /\ worktrees = [ok |-> TRUE, records |-> <<>>]
    /\ ci = 0
    /\ statuses = <<>>
    /\ shown = <<>>
    /\ cgit = <<>>
    /\ cerror = "none"
    /\ cexit = -1

InitStatus == LockIdle /\ HooksIdle /\ NewIdle /\ StatusCalled /\ PureIdle

\* an exception leaves the command: traceback, exit status 1
CmdRaise(kind) ==
    /\ cpc' = "failed"
    /\ cerror' = kind
    /\ cexit' = 1

CmdFrame ==
    /\ UNCHANGED <<copts, cworld, porcelain>>
    /\ UNCHANGED lockVars
    /\ UNCHANGED hookVars
    /\ UNCHANGED newVars
    /\ UNCHANGED pureVars

\* cmd_list
CmdList ==
    /\ cpc = "start"
    /\ copts.command = "list"
    /\ worktrees' = list_worktrees(porcelain)
    /\ cgit' = Append(cgit, <<"worktree list", <<"/repo">>>>)
    /\ IF ~worktrees'.ok
       THEN CmdRaise("KeyError") /\ UNCHANGED shown
       ELSE /\ shown' = IF copts.json THEN list_json(worktrees'.records)
                        ELSE print_list_table(worktrees'.records)
            /\ cpc' = "done"
            /\ cexit' = 0
            /\ UNCHANGED cerror
    /\ UNCHANGED <<ci, statuses>>
    /\ CmdFrame

\* cmd_status up to the for loop of get_all_worktree_statuses: fetch, then
\* the enumeration
StatusStart(fetch_ok) ==
    /\ cpc = "start"
    /\ copts.command = "status"
    /\ IF ~fetch_ok
       THEN /\ cgit' = Append(cgit, <<"fetch", <<"/repo">>>>)
            /\ CmdRaise("GitError")
            /\ UNCHANGED <<worktrees, ci>>
       ELSE /\ cgit' = cgit \o <<<<"fetch", <<"/repo">>>>, <<"worktree list", <<"/repo">>>>>>
            /\ worktrees' = list_worktrees(porcelain)
            /\ IF ~worktrees'.ok
               THEN CmdRaise("KeyError") /\ UNCHANGED ci
               ELSE cpc' = "loop" /\ ci' = 1 /\ UNCHANGED <<cerror, cexit>>
    /\ UNCHANGED <<statuses, shown>>
    /\ CmdFrame

\* one iteration of the loop of get_all_worktree_statuses
StatusVisit ==
    /\ cpc = "loop"
    /\ copts.command = "status"
    /\ ci <= Len(worktrees.records)
    /\ LET wt == worktrees.records[ci]
       IN  IF wt.is_bare
           THEN /\ ci' = ci + 1
                /\ UNCHANGED <<cpc, statuses, cgit, cerror, cexit>>
           ELSE LET r == get_worktree_status(wt, cworld[wt.path])
                IN  /\ cgit' = cgit \o StatusOps(wt.path, cworld[wt.path])
                    /\ IF r.ok
                       THEN /\ statuses' = Append(statuses, r.status)
                            /\ ci' = ci + 1
                            /\ UNCHANGED <<cpc, cerror, cexit>>
                       ELSE /\ CmdRaise("GitError")
                            /\ UNCHANGED <<statuses, ci>>
    /\ UNCHANGED <<worktrees, shown>>
    /\ CmdFrame

\* the list is returned and printed, as JSON or as a table: one entry per
\* status either way
StatusPrint ==
    /\ cpc = "loop"
    /\ copts.command = "status"
    /\ ci > Len(worktrees.records)
    /\ shown' = statuses
    /\ cpc' = "done"
    /\ cexit' = 0
    /\ UNCHANGED <<worktrees, ci, statuses, cgit, cerror>>
    /\ CmdFrame

NextStatus ==
    \/ CmdList
    \/ \E fetch_ok \in BOOLEAN : StatusStart(fetch_ok)
    \/ StatusVisit
    \/ StatusPrint

SpecStatus == InitStatus /\ [][NextStatus]_vars

-----------------------------------------------------------------------------
(* The pull-main command (wt/cli.py cmd_pull_main) *)

\* the strategies update_with_strategy knows
Strategies == {<<"rebase">>, <<"merge">>, <<"ff-only">>}

\* what git answers in one checkout during pull-main: the dirty check, and
\* whether stash push, the update and stash pop succeed
CleanCheckout == [dirty |-> "clean", push_ok |-> TRUE, update_ok |-> TRUE, pop_ok |-> TRUE]
PullProbes ==
    {CleanCheckout,
     [CleanCheckout EXCEPT !.update_ok = FALSE],
     [CleanCheckout EXCEPT !.dirty = "fail"],
     [CleanCheckout EXCEPT !.dirty = "dirty"],
     [CleanCheckout EXCEPT !.dirty = "dirty", !.push_ok = FALSE],
     [CleanCheckout EXCEPT !.dirty = "dirty", !.update_ok = FALSE],
     [CleanCheckout EXCEPT !.dirty = "dirty", !.pop_ok = FALSE]}

\* the messages of the loop body
StashedWarning == "Warning: Changes are stashed, run 'git stash pop' manually"
PopFailedWarning == "Warning: Failed to pop stash"
RunPopManually == "Run 'git stash pop' manually to recover changes"

\* args.strategy or cfg["update"]["strategy"]
ResolveStrategy(opts) ==
    IF opts.strategy # None THEN opts.strategy ELSE opts.cfg_strategy

\* args.stash if args.stash is not None else cfg["update"]["auto_stash"];
\* --stash is a store_true flag, so args.stash is never None
ResolveAutoStash(opts) == opts.stash

\* except GitError around update_with_strategy: error line, warning when a
\* stash was pushed, continue
UpdateFailure(path, stashed, ops, lines) ==
    [ops |-> Append(ops, <<"update", path, "fail">>),
     lines |-> Append(lines, <<"Error", path>>)
               \o (IF stashed THEN <<<<StashedWarning, path>>>> ELSE <<>>),
     outcome |-> "next"]

\* the body of the for loop for a record that is not bare: the git commands
\* run with their results, the lines printed, and how the iteration ends
PullBody(wt, probe, auto_stash, strategy) ==
    LET path == wt.path
        header == <<<<"Updating", path>>>>
        stashed == probe.dirty = "dirty" /\ auto_stash
        before == <<<<"status", path, "ok">>>>
                  \o (IF stashed THEN <<<<"stash push", path, "ok">>>> ELSE <<>>)
        said == header \o (IF stashed THEN <<<<"Stashing changes...", path>>>> ELSE <<>>)
    IN  IF probe.dirty = "fail"
        THEN [ops |-> <<<<"status", path, "fail">>>>, lines |-> header,
              outcome |-> "GitError"]
        ELSE IF probe.dirty = "dirty" /\ ~auto_stash
        THEN [ops |-> <<<<"status", path, "ok">>>>,
              lines |-> Append(header, <<"Skipping", path>>), outcome |-> "next"]
        ELSE IF stashed /\ ~probe.push_ok
        THEN [ops |-> <<<<"status", path, "ok">>, <<"stash push", path, "fail">>>>,
              lines |-> said, outcome |-> "GitError"]
        ELSE IF strategy \notin Strategies
        THEN [ops |-> before, lines |-> said, outcome |-> "ValueError"]
        ELSE IF ~probe.update_ok
        THEN UpdateFailure(path, stashed, before, said)
        ELSE IF ~stashed
        THEN [ops |-> Append(before, <<"update", path, "ok">>),
              lines |-> Append(said, <<"Updated", path>>), outcome |-> "next"]
        ELSE IF probe.pop_ok
        THEN [ops |-> before \o <<<<"update", path, "ok">>, <<"stash pop", path, "ok">>>>,
              lines |-> said \o <<<<"Updated", path>>, <<"Popped stash", path>>>>,
              outcome |-> "next"]
        ELSE [ops |-> before \o <<<<"update", path, "ok">>, <<"stash pop", path, "fail">>>>,
              lines |-> said \o <<<<"Updated", path>>, <<PopFailedWarning, path>>,
                                  <<RunPopManually, path>>>>,
              outcome |-> "next"]

\* pull-main is called
PullCalled ==
    /\ cpc = "start"
    /\ copts \in [command : {"pull-main"}, stash : BOOLEAN, cfg_auto_stash : BOOLEAN,
                  strategy : {None, <<"merge">>},
                  cfg_strategy : {<<"rebase">>, <<"squash">>}]
    /\ cworld \in [CheckoutPaths -> PullProbes]
    /\ porcelain \in Porcelains
    /\ worktrees = [ok |-> TRUE, records |-> <<>>]
    /\ ci = 0
    /\ statuses = <<>>
    /\ shown = <<>>
    /\ cgit = <<>>
    /\ cerror = "none"
    /\ cexit = -1

InitPull == LockIdle /\ HooksIdle /\ NewIdle /\ PullCalled /\ PureIdle

\* cmd_pull_main up to the for loop: fetch, base and options, enumeration
PullStart(fetch_ok) ==
    /\ cpc = "start"
    /\ copts.command = "pull-main"
    /\ IF ~fetch_ok
       THEN /\ cgit' = Append(cgit, <<"fetch", <<"/repo">>, "fail">>)
            /\ CmdRaise("GitError")
            /\ UNCHANGED <<worktrees, ci>>
       ELSE /\ cgit' = cgit \o <<<<"fetch", <<"/repo">>, "ok">>,
                                 <<"worktree list", <<"/repo">>, "ok">>>>
            /\ worktrees' = list_worktrees(porcelain)
            /\ IF ~worktrees'.ok
               THEN CmdRaise("KeyError") /\ UNCHANGED ci
               ELSE cpc' = "loop" /\ ci' = 1 /\ UNCHANGED <<cerror, cexit>>
    /\ UNCHANGED <<statuses, shown>>
    /\ CmdFrame

\* one iteration of the for loop
PullVisit ==
    /\ cpc = "loop"
    /\ copts.command = "pull-main"
    /\ ci <= Len(worktrees.records)
    /\ LET wt == worktrees.records[ci]
       IN  IF wt.is_bare
           THEN /\ ci' = ci + 1
                /\ UNCHANGED <<cpc, shown, cgit, cerror, cexit>>
           ELSE LET r == PullBody(wt, cworld[wt.path], ResolveAutoStash(copts),
                                  ResolveStrategy(copts))
                IN  /\ cgit' = cgit \o r.ops
                    /\ shown' = shown \o r.lines
                    /\ IF r.outcome = "next"
                       THEN ci' = ci + 1 /\ UNCHANGED <<cpc, cerror, cexit>>
                       ELSE CmdRaise(r.outcome) /\ UNCHANGED ci
    /\ UNCHANGED <<worktrees, statuses>>
    /\ CmdFrame

\* after the loop
PullDone ==
    /\ cpc = "loop"
    /\ copts.command = "pull-main"
    /\ ci > Len(worktrees.records)
    /\ shown' = Append(shown, <<"Done", <<"/repo">>>>)
    /\ cpc' = "done"
    /\ cexit' = 0
    /\ UNCHANGED <<worktrees, ci, statuses, cgit, cerror>>
    /\ CmdFrame

NextPull ==
    \/ \E fetch_ok \in BOOLEAN : PullStart(fetch_ok)
    \/ PullVisit
    \/ PullDone

SpecPull == InitPull /\ [][NextPull]_vars

-----------------------------------------------------------------------------
(* The prune-merged and rm commands (wt/cli.py cmd_prune_merged, cmd_rm) *)

\* the main checkout has the feature branch checked out, main has no worktree
FeatureListing ==
    <<WorktreeLine(<<"/a">>), HeadLine, BranchLine(<<"f">>), Blank,
      WorktreeLine(<<"/b">>), HeadLine, BranchLine(<<"g">>)>>

PruneListings == {PlainListing, FeatureListing, BareListing}

\* git rev-parse --abbrev-ref HEAD in the main checkout
CurrentOf(listing) == IF listing = FeatureListing THEN <<"f">> ELSE <<"main">>

\* get_default_config()["prune"]["protected"]
DefaultProtected == {<<"main">>, <<"master">>, <<"develop">>}

\* what git branch --merged prints: names in refname order
MergedLists ==
    {<<>>, <<<<"f">>>>, <<<<"g">>>>, <<<<"main">>>>, <<<<"f">>, <<"g">>>>,
     <<<<"f">>, <<"main">>>>, <<<<"g">>, <<"main">>>>,
     <<<<"f">>, <<"g">>, <<"main">>>>}

\* what the user types at the prompt
Responses == {"y", "Y", "n", ""}

\* str.lower on those answers
Lower(response) == IF response = "Y" THEN "y" ELSE response

\* Faulty variant: only the answer n aborts
DeclinedOnlyOnN(response) == response = "n"

\* if response.lower() != "y"
Declined(response) == Lower(response) # "y"

\* gitutil.found_for_branch on the records of the enumeration: the
\* path of the first record on that branch, or None
RECURSIVE FirstOnBranch(_, _)
FirstOnBranch(records, branch) ==
    IF records = <<>> THEN None
    ELSE IF Head(records).branch = branch THEN Head(records).path
    ELSE FirstOnBranch(Tail(records), branch)

\* set(args.protected or cfg["prune"]["protected"])
ProtectedSet(opts) ==
    IF opts.protected # <<>>
    THEN {opts.protected[i] : i \in 1..Len(opts.protected)}
    ELSE opts.cfg_protected

\* to_prune = [b for b in merged if b not in protected and b != current]
IsCandidate(branch) ==
    branch \notin ProtectedSet(copts) /\ branch # cworld.current
ToPrune == SelectSeq(cworld.merged, IsCandidate)

\* args.delete_branch or cfg["prune"]["delete_branch_with_worktree"]
DeleteToo(opts) == opts.delete_branch \/ opts.cfg_delete

PruneOpts ==
    [command : {"prune-merged"}, yes : BOOLEAN, response : Responses,
     protected : {<<>>, <<<<"g">>>>}, cfg_protected : {DefaultProtected},
     delete_branch : BOOLEAN, cfg_delete : BOOLEAN]

RmOpts ==
    [command : {"rm"}, yes : BOOLEAN, response : Responses,
     branch : {<<"f">>, <<"main">>}, auto_prefix : {<<>>},
     delete_branch : BOOLEAN, force : BOOLEAN]

\* prune-merged or rm is called inside the with block of main(): the
\* invocation holds the repository lock
PruneCalled ==
    /\ cpc = "start"
    /\ copts \in PruneOpts \cup RmOpts
    /\ copts.yes => copts.response = "y"
    /\ porcelain \in PruneListings
    /\ cworld \in [merged : MergedLists, current : {CurrentOf(porcelain)},
                   remove_fails : {{}, {<<"/b">>}},
                   delete_fails : {{}, {<<"f">>}},
                   unpushed : {0, 1}]
    /\ copts.command = "rm" => cworld.merged = <<>>
    /\ copts.command = "prune-merged" => cworld.unpushed = 0
    /\ worktrees = [ok |-> TRUE, records |-> <<>>]
    /\ ci = 0
    /\ statuses = <<>>
    /\ shown = <<>>
    /\ cgit = <<>>
    /\ cerror = "none"
    /\ cexit = -1

\* the state main() is in when it calls the command's function
LockHeld ==
    LET path == get_lock_path(MainRoot).path
    IN  /\ platform \in {"unix", "win32"}
        /\ pc = [p \in Procs |-> IF p = 1 THEN "command" ELSE "idle"]
        /\ lock_path = [p \in Procs |-> IF p = 1 THEN path ELSE NoPath]
        /\ lock_file = [p \in Procs |-> p = 1]
        /\ acquired = [p \in Procs |-> p = 1]
        /\ attempt = [p \in Procs |-> 0]
        /\ todo = [p \in Procs |-> IF p = 1 THEN Len(Steps(copts.command)) ELSE 0]
        /\ exitKind = [p \in Procs |-> "none"]
        /\ origin = [p \in Procs |-> NoPath]
        /\ flock = IF platform = "unix" THEN {<<path, 1>>} ELSE {}
        /\ files = (path :> IF platform = "unix" THEN <<>> ELSE Str(Pid(1)))
        /\ readable = TRUE

InitPrune == PruneCalled /\ LockHeld /\ HooksIdle /\ NewIdle /\ PureIdle

PruneFrame ==
    /\ UNCHANGED <<copts, cworld, porcelain, statuses>>
    /\ UNCHANGED lockVars
    /\ UNCHANGED hookVars
    /\ UNCHANGED newVars
    /\ UNCHANGED pureVars

\* the function returns
CmdReturn ==
    /\ cpc' = "done"
    /\ cexit' = 0
    /\ UNCHANGED cerror

\* the confirmation prompt: nothing when --yes was given, else the question
\* and, for an answer other than y, the word Aborted
Prompt(question) ==
    IF copts.yes THEN <<>>
    ELSE <<<<question, <<"/repo">>>>>>
         \o (IF Declined(copts.response) THEN <<<<"Aborted", <<"/repo">>>>>> ELSE <<>>)

Proceeds == copts.yes \/ ~Declined(copts.response)

\* cmd_prune_merged up to the for loop: fetch, protected set, candidates,
\* confirmation
PruneStart(fetch_ok) ==
    /\ cpc = "start"
    /\ copts.command = "prune-merged"
    /\ IF ~fetch_ok
       THEN /\ cgit' = Append(cgit, <<"fetch", <<"/repo">>, "fail">>)
            /\ CmdRaise("GitError")
            /\ UNCHANGED <<shown, ci>>
       ELSE /\ cgit' = Append(cgit, <<"fetch", <<"/repo">>, "ok">>)
            /\ IF ToPrune = <<>>
               THEN /\ shown' = Append(shown, <<"No branches to prune", <<"/repo">>>>)
                    /\ CmdReturn
                    /\ UNCHANGED ci
               ELSE /\ shown' = shown
                                \o [i \in 1..Len(ToPrune) |-> <<"Found", ToPrune[i]>>]
                                \o Prompt("Prune these branches? [y/N] ")
                    /\ IF Proceeds
                       THEN cpc' = "loop" /\ ci' = 1 /\ UNCHANGED <<cerror, cexit>>
                       ELSE CmdReturn /\ UNCHANGED ci
    /\ UNCHANGED worktrees
    /\ PruneFrame

\* one iteration of the for loop over to_prune
PruneVisit ==
    /\ cpc = "loop"
    /\ copts.command = "prune-merged"
    /\ ci <= Len(ToPrune)
    /\ worktrees' = list_worktrees(porcelain)
    /\ LET branch == ToPrune[ci]
           found == FirstOnBranch(worktrees'.records, branch)
           remove == found # None
           removed == found \notin cworld.remove_fails
           deleted == branch \notin cworld.delete_fails
       IN  /\ IF ~worktrees'.ok
              THEN /\ CmdRaise("KeyError")
                   /\ UNCHANGED <<shown, cgit, ci>>
              ELSE IF remove /\ ~removed
              THEN /\ shown' = Append(shown, <<"Removing worktree", branch>>)
                   /\ cgit' = Append(cgit, <<"worktree remove", found, "fail">>)
                   /\ CmdRaise("GitError")
                   /\ UNCHANGED ci
              ELSE /\ shown' = shown
                        \o (IF remove THEN <<<<"Removing worktree", branch>>>> ELSE <<>>)
                        \o (IF DeleteToo(copts) THEN <<<<"Deleting branch", branch>>>> ELSE <<>>)
                   /\ cgit' = cgit
                        \o (IF remove THEN <<<<"worktree remove", found, "ok">>>>
                            ELSE <<>>)
                        \o (IF DeleteToo(copts)
                            THEN <<<<"branch delete", branch,
                                     IF deleted THEN "ok" ELSE "fail">>>>
                            ELSE <<>>)
                   /\ IF DeleteToo(copts) /\ ~deleted
                      THEN CmdRaise("GitError") /\ UNCHANGED ci
                      ELSE ci' = ci + 1 /\ UNCHANGED <<cpc, cerror, cexit>>
    /\ PruneFrame

\* after the loop
PruneDone ==
    /\ cpc = "loop"
    /\ copts.command = "prune-merged"
    /\ ci > Len(ToPrune)
    /\ shown' = Append(shown, <<"Done", <<"/repo">>>>)
    /\ CmdReturn
    /\ UNCHANGED <<worktrees, ci, cgit>>
    /\ PruneFrame

\* sys.exit(1) after an error message
CmdExit1 ==
    /\ cpc' = "failed"
    /\ cerror' = "SystemExit"
    /\ cexit' = 1

\* cmd_rm up to the removal: branch name, lookup of the worktree,
\* confirmation
RmStart ==
    /\ cpc = "start"
    /\ copts.command = "rm"
    /\ worktrees' = list_worktrees(porcelain)
    /\ cgit' = Append(cgit, <<"worktree list", <<"/repo">>, "ok">>)
    /\ LET branch_name == GitBranchName(copts.branch, copts.auto_prefix)
           found == FirstOnBranch(worktrees'.records, branch_name)
       IN  IF ~worktrees'.ok
           THEN CmdRaise("KeyError") /\ UNCHANGED shown
           ELSE IF found = None
           THEN /\ shown' = Append(shown, <<"Error: No worktree found", branch_name>>)
                /\ CmdExit1
           ELSE /\ shown' = shown \o Prompt("Remove worktree? [y/N] ")
                /\ IF Proceeds
                   THEN cpc' = "remove" /\ UNCHANGED <<cerror, cexit>>
                   ELSE CmdReturn
    /\ UNCHANGED ci
    /\ PruneFrame

\* count_unpushed_commits(path, branch): get_upstream_branch runs git with
\* cwd = path; when the directory is gone subprocess.run raises
\* FileNotFoundError, git() turns it into GitError, get_upstream_branch into
\* None, and the count is 0
count_unpushed_commits(path_exists) == IF path_exists THEN cworld.unpushed ELSE 0

\* git branch -d refuses a branch that is not merged into its upstream;
\* git branch -D does not look
BranchDeleted(branch, force) ==
    /\ branch \notin cworld.delete_fails
    /\ force \/ cworld.unpushed = 0

\* the rest of cmd_rm: removal, the unpushed-commits check, deletion; git
\* worktree remove has deleted the directory when the check runs
RmRemove ==
    /\ cpc = "remove"
    /\ copts.command = "rm"
    /\ LET branch_name == GitBranchName(copts.branch, copts.auto_prefix)
           found == FirstOnBranch(worktrees.records, branch_name)
           flag == IF copts.force THEN "branch delete -D" ELSE "branch delete"
           removed == found \notin cworld.remove_fails
           deleted == BranchDeleted(branch_name, copts.force)
           unpushed == count_unpushed_commits(FALSE)
       IN  /\ IF ~removed
              THEN /\ shown' = Append(shown, <<"Removing worktree", branch_name>>)
                   /\ cgit' = Append(cgit, <<"worktree remove", found, "fail">>)
                   /\ CmdRaise("GitError")
              ELSE IF ~copts.delete_branch
              THEN /\ shown' = shown \o <<<<"Removing worktree", branch_name>>,
                                          <<"Done", <<"/repo">>>>>>
                   /\ cgit' = Append(cgit, <<"worktree remove", found, "ok">>)
                   /\ CmdReturn
              ELSE IF ~copts.force /\ unpushed > 0
              THEN /\ shown' = shown \o <<<<"Removing worktree", branch_name>>,
                                          <<"Error: unpushed commits", branch_name>>>>
                   /\ cgit' = Append(cgit, <<"worktree remove", found, "ok">>)
                   /\ CmdExit1
              ELSE /\ shown' = shown \o <<<<"Removing worktree", branch_name>>,
                                          <<"Deleting branch", branch_name>>>>
                                 \o (IF deleted THEN <<<<"Done", <<"/repo">>>>>> ELSE <<>>)
                   /\ cgit' = cgit \o <<<<"worktree remove", found, "ok">>,
                                        <<flag, branch_name,
                                          IF deleted THEN "ok" ELSE "fail">>>>
                   /\ IF deleted THEN CmdReturn ELSE CmdRaise("GitError")
    /\ UNCHANGED <<worktrees, ci>>
    /\ PruneFrame

\* how the body of the with block ended, as RepoLock.__exit__ sees it
ExitPath ==
    CASE cpc = "done" -> "return"
      [] cerror = "SystemExit" -> "sysexit"
      [] cerror = "GitError" -> "GitError"
      [] OTHER -> "exception"

\* the command's function has ended: the with statement of main() exits
CmdLeave ==
    /\ cpc \in {"done", "failed"}
    /\ pc[1] = "command"
    /\ Finish(1, ExitPath)

NextPrune ==
    \/ \E fetch_ok \in BOOLEAN : PruneStart(fetch_ok)
    \/ PruneVisit
    \/ PruneDone
    \/ RmStart
    \/ RmRemove
    \/ CmdLeave
    \/ Terminate(1)

SpecPrune == InitPrune /\ [][NextPrune]_vars

-----------------------------------------------------------------------------
(* Configuration (wt/config.py merge_configs, load_config) *)

\* number of distinct values a configuration key takes in the layers
NumValues == 2

\* a value of a dict is a list (kind "leaf") or a dict (kind "dict")
Leaf(v) == [kind |-> "leaf", value |-> v]
Dict(d) == [kind |-> "dict", value |-> d]

\* isinstance(x, dict)
IsDict(node) == node.kind = "dict"

ConfigKeys == {"paths", "update"}
ConfigLeaves == {Leaf(<<v>>) : v \in 1..NumValues}

\* the dicts over ConfigKeys whose values are taken from a set of nodes
DictsOver(nodes) == UNION {[keys -> nodes] : keys \in SUBSET ConfigKeys}

\* dicts of lists, and dicts of lists and of such dicts
FlatDicts == DictsOver(ConfigLeaves)
NestedDicts == DictsOver(ConfigLeaves \cup {Dict(d) : d \in FlatDicts})

\* Faulty variant: dict.update, the override's section replaces the base's
RECURSIVE merge_configs_shallow(_, _)
merge_configs_shallow(base, override) ==
    [key \in DOMAIN base \cup DOMAIN override |->
        IF key \in DOMAIN override THEN override[key] ELSE base[key]]

\* merge_configs: a copy of base in which every key of override is set, to
\* the recursive merge when both values are dicts, else to override's value
RECURSIVE merge_configs(_, _)
merge_configs(base, override) ==
    [key \in DOMAIN base \cup DOMAIN override |->
        IF key \in DOMAIN override
        THEN IF key \in DOMAIN base /\ IsDict(base[key]) /\ IsDict(override[key])
             THEN Dict(merge_configs(base[key].value, override[key].value))
             ELSE override[key]
        ELSE base[key]]

\* the keys of the configuration that are examined, as <<section, key>>
\* (a cut of get_default_config), and the value each has by default
ConfigPaths ==
    {<<"branches", "auto_prefix">>, <<"update", "strategy">>, <<"update", "auto_stash">>}
DefaultValue == 0

\* what a config file or the CLI sets: a value for some of the keys
Settings == UNION {[paths -> 1..NumValues] : paths \in SUBSET ConfigPaths}

\* tomllib.load: the tables of the file as nested dicts
ToDict(settings) ==
    [section \in {path[1] : path \in DOMAIN settings} |->
        Dict([key \in {path[2] : path \in {q \in DOMAIN settings : q[1] = section}} |->
                 Leaf(<<settings[<<section, key>>]>>)])]

\* get_default_config
get_default_config == ToDict([path \in ConfigPaths |-> DefaultValue])

\* a layer of load_config: absent (no file, no repository, no overrides) or
\* present with its settings
Absent == [present |-> FALSE, settings |-> <<>>]
Layers == {Absent} \cup [present : {TRUE}, settings : Settings]

\* one step of load_config: the layer is merged in when it is there
MergeLayer(config, layer) ==
    IF layer.present THEN merge_configs(config, ToDict(layer.settings)) ELSE config

\* Faulty variant: the global file is merged after the local one
load_config_global_last(global_layer, local_layer, cli_overrides) ==
    MergeLayer(MergeLayer(MergeLayer(get_default_config, local_layer), global_layer),
               cli_overrides)

\* load_config: defaults, then the global file, the local file, the overrides
load_config(global_layer, local_layer, cli_overrides) ==
    MergeLayer(MergeLayer(MergeLayer(get_default_config, global_layer), local_layer),
               cli_overrides)

\* merge_configs or load_config is called
ConfigCalled ==
    /\ call \in [function : {"merge_configs"}, base : NestedDicts, override : NestedDicts]
               \cup [function : {"load_config"}, global : Layers, local : Layers,
                     cli : Layers]
    /\ answer = [done |-> FALSE]

InitConfig == LockIdle /\ HooksIdle /\ NewIdle /\ CmdIdle /\ ConfigCalled

PureFrame ==
    /\ UNCHANGED call
    /\ UNCHANGED lockVars
    /\ UNCHANGED hookVars
    /\ UNCHANGED newVars
    /\ UNCHANGED cmdVars

MergeConfigs ==
    /\ call.function = "merge_configs"
    /\ ~answer.done
    /\ answer' = [done |-> TRUE, value |-> merge_configs(call.base, call.override)]
    /\ PureFrame

LoadConfig ==
    /\ call.function = "load_config"
    /\ ~answer.done
    /\ answer' = [done |-> TRUE,
                  value |-> load_config(call.global, call.local, call.cli)]
    /\ PureFrame

NextConfig == MergeConfigs \/ LoadConfig

SpecConfig == InitConfig /\ [][NextConfig]_vars

-----------------------------------------------------------------------------
(* Path templates as text (wt/paths.py render_path_template) *)

\* longest template, in pieces
MaxTemplate == 5

\* a text is a sequence of pieces: "$", "/", a lower-case letter, or a run
\* of upper-case letters and underscores
NamePieces == {"WT_ROOT", "BRANCH_NAME"}
TextPieces == {"$", "/", "x"} \cup NamePieces
TemplateTexts == UNION {[1..n -> TextPieces] : n \in 0..MaxTemplate}

\* values of the context: str(wt_root), and what the user gave as branch
WtRootValues == {<<"/", "x">>}
BranchValues ==
    {<<"x">>, <<"x", "/", "x">>, <<"x", "/", "/", "x">>, <<"/", "x">>,
     <<"x", "/", "$", "WT_ROOT">>}
TextContexts ==
    {EmptyDict}
    \cup {[k \in {"WT_ROOT"} |-> w] : w \in WtRootValues}
    \cup {[k \in {"BRANCH_NAME"} |-> b] : b \in BranchValues}
    \cup {[k \in NamePieces |-> IF k = "WT_ROOT" THEN w ELSE b] :
             w \in WtRootValues, b \in BranchValues}

\* [A-Z_][A-Z0-9_]* matches as far as it can: the last piece of the name
\* that starts at piece i
RECURSIVE NameEnd(_, _)
NameEnd(text, i) ==
    IF i < Len(text) /\ text[i + 1] \in NamePieces THEN NameEnd(text, i + 1) ELSE i

\* match.group(1): the pieces i..j as one string
RECURSIVE Join(_, _, _)
Join(text, i, j) == IF i > j THEN "" ELSE text[i] \o Join(text, i + 1, j)

\* Faulty variant: an unknown variable is left in place whatever allow_unknown
RECURSIVE pattern_sub_lenient(_, _, _, _)
pattern_sub_lenient(text, i, context, allow_unknown) ==
    IF i > Len(text) THEN [ok |-> TRUE, text |-> <<>>]
    ELSE IF text[i] = "$" /\ i < Len(text) /\ text[i + 1] \in NamePieces
    THEN LET j == NameEnd(text, i + 1)
             var_name == Join(text, i + 1, j)
             rest == pattern_sub_lenient(text, j + 1, context, allow_unknown)
         IN  IF var_name \notin DOMAIN context
             THEN [ok |-> rest.ok,
                   text |-> IF rest.ok THEN SubSeq(text, i, j) \o rest.text ELSE <<>>]
             ELSE [ok |-> rest.ok,
                   text |-> IF rest.ok THEN context[var_name] \o rest.text ELSE <<>>]
    ELSE LET rest == pattern_sub_lenient(text, i + 1, context, allow_unknown)
         IN  [ok |-> rest.ok,
              text |-> IF rest.ok THEN <<text[i]>> \o rest.text ELSE <<>>]

\* pattern.sub(replace_var, template) from piece i on: every match of
\* \$([A-Z_][A-Z0-9_]*) is replaced by replace_var's answer, the rest is
\* copied; ok is FALSE when replace_var raises ValueError
RECURSIVE pattern_sub(_, _, _, _)
pattern_sub(text, i, context, allow_unknown) ==
    IF i > Len(text) THEN [ok |-> TRUE, text |-> <<>>]
    ELSE IF text[i] = "$" /\ i < Len(text) /\ text[i + 1] \in NamePieces
    THEN LET j == NameEnd(text, i + 1)
             var_name == Join(text, i + 1, j)
             rest == pattern_sub(text, j + 1, context, allow_unknown)
         IN  IF var_name \notin DOMAIN context
             THEN IF ~allow_unknown
                  THEN [ok |-> FALSE, text |-> <<>>]
                  ELSE [ok |-> rest.ok,
                        text |-> IF rest.ok THEN SubSeq(text, i, j) \o rest.text
                                 ELSE <<>>]
             ELSE [ok |-> rest.ok,
                   text |-> IF rest.ok THEN context[var_name] \o rest.text ELSE <<>>]
    ELSE LET rest == pattern_sub(text, i + 1, context, allow_unknown)
         IN  [ok |-> rest.ok,
              text |-> IF rest.ok THEN <<text[i]>> \o rest.text ELSE <<>>]

\* text.split("/")
RECURSIVE Split(_)
Split(text) ==
    IF text = <<>> THEN << <<>> >>
    ELSE LET rest == Split(Tail(text))
         IN  IF Head(text) = "/" THEN << <<>> >> \o rest
             ELSE << <<Head(text)>> \o Head(rest) >> \o Tail(rest)

\* a component that Path keeps
IsComponent(component) == component # <<>> /\ component # <<".">>

\* Path(text) on POSIX: the root ("/", or "//" for exactly two slashes) and
\* the components, without the empty ones and the "." ones
Path(text) ==
    [anchor |-> IF Len(text) >= 1 /\ text[1] = "/"
                THEN IF Len(text) >= 2 /\ text[2] = "/"
                        /\ ~(Len(text) >= 3 /\ text[3] = "/")
                     THEN "//" ELSE "/"
                ELSE "",
     parts |-> SelectSeq(Split(text), IsComponent)]

\* Faulty variant: the substituted text is scanned once more
render_path_template_rescanning(template, context, allow_unknown) ==
    LET first == pattern_sub(template, 1, context, allow_unknown)
        second == pattern_sub(first.text, 1, context, allow_unknown)
    IN  [ok |-> first.ok /\ second.ok, value |-> Path(second.text)]

\* render_path_template on text: Path(pattern.sub(replace_var, template))
render_path_template_text(template, context, allow_unknown) ==
    LET result == pattern_sub(template, 1, context, allow_unknown)
    IN  [ok |-> result.ok, value |-> Path(result.text)]

RenderCalled ==
    /\ call \in [function : {"render_path_template"}, template : TemplateTexts,
                 context : TextContexts, allow_unknown : BOOLEAN]
    /\ answer = [done |-> FALSE]

InitRender == LockIdle /\ HooksIdle /\ NewIdle /\ CmdIdle /\ RenderCalled

\* the function is called, and called again with the same arguments
RenderPathTemplate ==
    /\ call.function = "render_path_template"
    /\ ~answer.done
    /\ LET first == render_path_template_text(call.template, call.context,
                                              call.allow_unknown)
           second == render_path_template_text(call.template, call.context,
                                               call.allow_unknown)
       IN  answer' = [done |-> TRUE, ok |-> first.ok, value |-> first.value,
                      again |-> second]
    /\ PureFrame

NextRender == RenderPathTemplate

SpecRender == InitRender /\ [][NextRender]_vars

-----------------------------------------------------------------------------
(* gc (wt/cli.py cmd_gc) *)

\* resolve_worktree_root with the default configuration
WtRoot == default_wt_root(RepoRoot)

\* the paths gc may meet: three below the worktree root, one beside it
UnderA == WtRoot \o <<"a">>
UnderAB == WtRoot \o <<"a", "b">>
UnderC == WtRoot \o <<"c">>
Outside == Parent(WtRoot) \o <<"other">>
GcPaths == {UnderA, UnderAB, UnderC, Outside}

\* what is at a path: nothing, a file, a directory with no file of its own,
\* or a directory with one (the .git file of a worktree, among others)
PathKinds == {"absent", "file", "empty", "full"}

\* item.is_dir()
IsDir(fs, path) == fs[path] \in {"empty", "full"}

\* the directory above every existing path is a directory
FileSystems ==
    {fs \in [GcPaths \cup {WtRoot} -> PathKinds] :
        /\ fs[WtRoot] # "file"
        /\ \A path \in {UnderA, UnderAB, UnderC} :
              fs[path] # "absent" => IsDir(fs, Parent(path))}

\* item.iterdir(): the entries of a directory that are paths of their own
Children(fs, path) ==
    {q \in DOMAIN fs : Parent(q) = path /\ fs[q] # "absent"}

\* not any(item.iterdir())
IsEmptyDir(fs, path) == fs[path] = "empty" /\ Children(fs, path) = {}

\* wt_root.rglob("*"): the entries of the root, then those of its
\* directories, top down
RglobOrder == <<UnderA, UnderC, UnderAB>>

\* git worktree prune: the entry of a worktree whose .git file is gone is
\* dropped unless the worktree is locked
prune_worktrees(world) ==
    [world EXCEPT !.registered =
        {path \in world.registered : path \in world.locked \/ world.fs[path] = "full"}]

\* git worktree list --porcelain for the repository and its worktrees
RECURSIVE BlocksOf(_, _)
BlocksOf(paths, world) ==
    IF paths = <<>> THEN <<>>
    ELSE (IF Head(paths) \in world.registered
          THEN <<Blank, WorktreeLine(Head(paths)), HeadLine, BranchLine(<<"f">>)>>
               \o (IF Head(paths) \in world.locked THEN <<LockedLine>> ELSE <<>>)
          ELSE <<>>)
         \o BlocksOf(Tail(paths), world)

GcListing(world) ==
    (IF world.bare THEN <<WorktreeLine(RepoRoot), BareLine>>
     ELSE <<WorktreeLine(RepoRoot), HeadLine, BranchLine(<<"main">>)>>)
    \o BlocksOf(<<UnderA, UnderAB, UnderC, Outside>>, world)

\* valid_paths = {wt.path for wt in worktrees}
ValidPaths(records) == {records[i].path : i \in 1..Len(records)}

\* Faulty variant: the registered worktrees are not looked at
RemovableIgnoringWorktrees(fs, valid_paths, item) ==
    IsDir(fs, item) /\ IsEmptyDir(fs, item)

\* item.is_dir() and not any(item.iterdir()) and item not in valid_paths
Removable(fs, valid_paths, item) ==
    IsDir(fs, item) /\ IsEmptyDir(fs, item) /\ item \notin valid_paths

GcCalled ==
    /\ cpc = "start"
    /\ copts = [command |-> "gc"]
    /\ cworld \in [fs : FileSystems, registered : SUBSET GcPaths,
                   locked : SUBSET GcPaths, bare : BOOLEAN]
    /\ cworld.locked \subseteq cworld.registered
    /\ porcelain = <<>>
    /\ worktrees = [ok |-> TRUE, records |-> <<>>]
    /\ ci = 0
    /\ statuses = <<>>
    /\ shown = <<>>
    /\ cgit = <<>>
    /\ cerror = "none"
    /\ cexit = -1

InitGc == LockIdle /\ HooksIdle /\ NewIdle /\ GcCalled /\ PureIdle

GcFrame ==
    /\ UNCHANGED <<copts, statuses>>
    /\ UNCHANGED lockVars
    /\ UNCHANGED hookVars
    /\ UNCHANGED newVars
    /\ UNCHANGED pureVars

\* lines 340-351: prune, resolve the root, list the worktrees
GcStart ==
    /\ cpc = "start"
    /\ copts.command = "gc"
    /\ cworld' = prune_worktrees(cworld)
    /\ IF ~IsDir(cworld.fs, WtRoot)
       THEN /\ shown' = shown \o << <<"Pruning stale worktree entries", RepoRoot>>,
                                   <<"Done", RepoRoot>> >>
            /\ cgit' = Append(cgit, <<"worktree prune", RepoRoot, "ok">>)
            /\ CmdReturn
            /\ UNCHANGED <<porcelain, worktrees, ci>>
       ELSE /\ porcelain' = GcListing(cworld')
            /\ worktrees' = list_worktrees(porcelain')
            /\ shown' = shown \o << <<"Pruning stale worktree entries", RepoRoot>>,
                                   <<"Cleaning up empty directories", WtRoot>> >>
            /\ cgit' = cgit \o << <<"worktree prune", RepoRoot, "ok">>,
                                 <<"worktree list", RepoRoot, "ok">> >>
            /\ IF worktrees'.ok
               THEN cpc' = "loop" /\ ci' = 1 /\ UNCHANGED <<cerror, cexit>>
               ELSE CmdRaise("KeyError") /\ UNCHANGED ci
    /\ GcFrame

\* lines 355-358: one item of the rglob; rmdir is recorded with the git
\* commands
GcVisit ==
    /\ cpc = "loop"
    /\ copts.command = "gc"
    /\ ci <= Len(RglobOrder)
    /\ LET item == RglobOrder[ci]
       IN  IF cworld.fs[item] # "absent"
              /\ Removable(cworld.fs, ValidPaths(worktrees.records), item)
           THEN /\ cworld' = [cworld EXCEPT !.fs[item] = "absent"]
                /\ cgit' = Append(cgit, <<"rmdir", item, "ok">>)
           ELSE UNCHANGED <<cworld, cgit>>
    /\ ci' = ci + 1
    /\ UNCHANGED <<cpc, cerror, cexit, porcelain, worktrees, shown>>
    /\ GcFrame

\* lines 360-362
GcDone ==
    /\ cpc = "loop"
    /\ copts.command = "gc"
    /\ ci > Len(RglobOrder)
    /\ shown' = shown \o << <<"Removed empty directories", WtRoot>>,
                           <<"Done", RepoRoot>> >>
    /\ CmdReturn
    /\ UNCHANGED <<cworld, porcelain, worktrees, ci, cgit>>
    /\ GcFrame

NextGc == GcStart \/ GcVisit \/ GcDone

SpecGc == InitGc /\ [][NextGc]_vars

-----------------------------------------------------------------------------

Next ==
    \/ \E p \in Procs, start \in StartDirs, cmd \in Commands : Main(p, start, cmd)
    \/ \E p \in Procs, root \in CheckoutRoots : RepoLockInit(p, root)
    \/ \E p \in Procs : AcquireUnix(p)
    \/ \E p \in Procs : AcquireOpenWindows(p)
    \/ \E p \in Procs : WinCheck(p)
    \/ \E p \in Procs : WinWrite(p)
    \/ \E p \in Procs, cmd \in Commands : Dispatch(p, cmd)
    \/ \E p \in Procs : DoStep(p)
    \/ \E p \in Procs, kind \in ExitPaths : Finish(p, kind)
    \/ \E p \in Procs : Terminate(p)
    \/ \E p \in Procs : Kill(p)

Spec == Init /\ [][Next]_vars

-----------------------------------------------------------------------------
(* Properties of the repository lock *)

\* between a successful acquire and the release: inside the with block
InCommand(p) == pc[p] \in {"dispatch", "command"}

\* the invocation holds the repository lock
Holds(p) ==
    /\ acquired[p]
    /\ lock_file[p]
    /\ platform = "unix" => <<lock_path[p], p>> \in flock

\* p took a step of its own program (it was not killed)
Stepped(p) ==
    /\ <<pc[p], attempt[p], todo[p]>> # <<pc'[p], attempt'[p], todo'[p]>>
    /\ exitKind'[p] # "killed"

CommonLockFile == MainRoot \o <<".git", "wt.lock">>

\* C1: on the native flock path at most one invocation at a time is between
\* a successful acquire and its release, whatever the interleaving.
C1_NativeMutualExclusion ==
    platform = "unix" => Cardinality({p \in Procs : InCommand(p)}) <= 1

C1_Witness ==
    /\ platform = "unix"
    /\ \E p, q \in Procs :
          /\ InCommand(p)
          /\ pc[q] = "exited" /\ exitKind[q] = "LockError" /\ lock_path[q] = lock_path[p]

\* C2: on the native path an acquire attempted while another invocation is
\* inside its with block fails at once with LockError, without retrying; an
\* acquire attempted when no invocation is inside succeeds.
C2_FailFastOrSucceed ==
    [][\A p \in Procs :
          (platform = "unix" /\ pc[p] = "enter" /\ Stepped(p)) =>
             IF \E q \in Procs \ {p} : InCommand(q) /\ lock_path[q] = lock_path[p]
             THEN pc'[p] = "exited" /\ exitKind'[p] = "LockError"
                  /\ ~acquired'[p] /\ attempt'[p] = 0
             ELSE pc'[p] = "dispatch" /\ acquired'[p]]_vars

C2_Witness ==
    /\ platform = "unix"
    /\ \E p, q \in Procs :
          /\ pc[p] \in {"released", "exited"} /\ exitKind[p] \in ExitPaths
          /\ InCommand(q) /\ acquired[q] /\ lock_path[q] = lock_path[p]

\* C3: an invocation that acquired the lock has released it by the time the
\* process terminates, on every way the command can end: return, sys.exit,
\* GitError or another exception.
C3_ReleasedBeforeTermination ==
    [][\A p \in Procs :
          (pc[p] # "exited" /\ pc'[p] = "exited" /\ exitKind'[p] \in ExitPaths) =>
             /\ ~acquired[p]
             /\ ~lock_file[p]
             /\ <<lock_path[p], p>> \notin flock]_vars

C3_Witness ==
    \E p, q \in Procs :
       /\ pc[p] = "exited" /\ exitKind[p] = "GitError"
       /\ pc[q] = "exited" /\ exitKind[q] = "sysexit"

\* C4: a command executes a mutating step only while its process holds the
\* repository lock; an invocation whose acquire failed executes none.
C4_MutationsUnderLock ==
    [][\A p \in Procs :
          /\ (todo'[p] < todo[p] /\ pc'[p] = "command") => (Holds(p) /\ Holds(p)')
          /\ exitKind[p] = "LockError" => todo'[p] = todo[p]]_vars

C4_Witness ==
    \E p, q \in Procs :
       /\ pc[p] = "command" /\ todo[p] = Len(Steps("new")) - 2 /\ Holds(p)
       /\ exitKind[q] = "LockError"

\* C5: on the PID-file path at most one of two live invocations is inside its
\* with block at a time.
C5_FallbackMutualExclusion ==
    platform = "win32" => Cardinality({p \in Procs : InCommand(p)}) <= 1

\* C6: a RepoLock created from the main checkout or from any worktree of the
\* repository resolves to the one lock file <git-common-dir>/wt.lock.
C6_OneLockFile ==
    \A p \in Procs : pc[p] \notin {"idle", "exited"} => lock_path[p] = CommonLockFile

C6_Witness ==
    \E p, q \in Procs :
       /\ pc[p] = "enter" /\ origin[p] \in LinkedWorktrees
       /\ pc[q] = "enter" /\ origin[q] = MainRoot
       /\ lock_path[p] = lock_path[q]

\* the process is inside the polling loop of _acquire_windows
InLoop(p) == pc[p] \in {"win_check", "win_write"}

\* C7: on the PID-file path every step of the polling loop either returns
\* having written the caller's PID, or raises LockError, or moves on within
\* the ceiling of MaxAttempts attempts: the loop cannot run forever and cannot
\* return without the write.
C7_BoundedAcquire ==
    [][\A p \in Procs :
          (platform = "win32" /\ InLoop(p) /\ Stepped(p)) =>
             \/ /\ pc'[p] = "dispatch" /\ acquired'[p]
                /\ files'[lock_path[p]] = files[lock_path[p]] \o Str(Pid(p))
             \/ pc'[p] = "exited" /\ exitKind'[p] = "LockError"
             \/ /\ pc[p] = "win_check" /\ pc'[p] = "win_write"
                /\ attempt'[p] = attempt[p]
             \/ /\ pc'[p] = "win_check"
                /\ attempt'[p] = attempt[p] + 1
                /\ attempt'[p] <= MaxAttempts - 1]_vars

C7_Witness ==
    /\ platform = "win32"
    /\ readable
    /\ \E p, q \in Procs :
          /\ pc[p] = "exited" /\ exitKind[p] = "LockError" /\ lock_path[p] # NoPath
          /\ InCommand(q)

\* the lock file records the PID of a process that no longer exists
Stale(path) ==
    /\ path \in DOMAIN files
    /\ files[path] # <<>>
    /\ \A q \in Procs : Alive(q) => Str(Pid(q)) # files[path]

\* C8: on the PID-file path, an attempt that finds the PID of a process that
\* no longer exists goes on to write its own PID on that same attempt, and
\* the write completes the acquisition: no LockError, no further polling.
C8_StaleLockReclaimed ==
    [][\A p \in Procs :
          /\ (platform = "win32" /\ readable /\ pc[p] = "win_check"
                /\ Stale(lock_path[p]) /\ Stepped(p)) =>
                (pc'[p] = "win_write" /\ attempt'[p] = attempt[p])
          /\ (platform = "win32" /\ pc[p] = "win_write" /\ Stepped(p)) =>
                (pc'[p] = "dispatch" /\ acquired'[p])]_vars

C8_Witness ==
    /\ platform = "win32"
    /\ readable
    /\ \E p, q \in Procs :
          /\ pc[p] = "win_write" /\ attempt[p] > 0
          /\ pc[q] = "exited"
          /\ files[lock_path[p]] = Str(Pid(q))

-----------------------------------------------------------------------------
(* Properties of the hook pipeline *)

\* the executable regular files of a hook directory that is looked at
ExecutablesOf(directory, considered, tier) ==
    IF considered /\ directory.is_dir
    THEN {[tier |-> tier, name |-> e.name] :
             e \in {x \in directory.entries : x.kind = "exec"}}
    ELSE {}

\* C9: the hooks are started in list order, the list holding exactly the
\* executable regular files of the local directory in ascending file name
\* order followed by those of the global directory in ascending file name
\* order; a hook is started only after the previous one has exited, no hook
\* is started twice, and a run that returns has started all of them.
C9_HookOrder ==
    hpc # "start" =>
       /\ {hooks[i] : i \in 1..Len(hooks)} =
             ExecutablesOf(local_hook_dir, local_config_path, "local")
             \cup ExecutablesOf(global_hook_dir, TRUE, "global")
       /\ \A i, j \in 1..Len(hooks) :
             i < j =>
                /\ hooks[i].tier = "global" => hooks[j].tier = "global"
                /\ hooks[i].tier = hooks[j].tier =>
                      LexLess(hooks[i].name, hooks[j].name)
       /\ Len(started) <= Len(hooks)
       /\ \A i \in 1..Len(started) : started[i] = hooks[i]
       /\ child \in {0, Len(started)}
       /\ Len(outcomes) = Len(started) - (IF child = 0 THEN 0 ELSE 1)
       /\ hpc = "returned" => started = hooks

C9_Witness ==
    /\ hpc = "returned"
    /\ started = <<[tier |-> "local", name |-> <<0, 1>>],
                   [tier |-> "local", name |-> <<1>>],
                   [tier |-> "global", name |-> <<0>>]>>
    /\ \E e \in global_hook_dir.entries : e.kind # "exec"

\* C10: in fail-fast mode a hook that exits non-zero, times out or cannot be
\* launched is the last hook ever started, and run_post_create_hooks has
\* raised HookError.
C10_FailFast ==
    ~continue_on_error =>
       \A i \in 1..Len(outcomes) :
          outcomes[i] \in HookFailures =>
             /\ hpc = "raised"
             /\ Len(started) = i
             /\ child = 0

C10_Witness ==
    /\ ~continue_on_error
    /\ hpc = "raised"
    /\ outcomes = <<"ok", "timeout">>
    /\ Len(started) = 2
    /\ Len(hooks) > 2

IsWarning(line) == line[1] = "warning"

\* C11: with continue_on_error set, run_post_create_hooks never raises: the
\* hooks are started once each in list order whatever failed before, every
\* failure of any kind leaves exactly one warning, the function returns
\* after the last hook, and cmd_new goes on to print the destination path
\* and ends with status 0.
C11_ContinueOnError ==
    continue_on_error =>
       /\ hpc # "raised"
       /\ npc # "failed"
       /\ Len(started) <= Len(hooks)
       /\ \A i \in 1..Len(started) : started[i] = hooks[i]
       /\ Len(SelectSeq(out, IsWarning)) =
             Cardinality({i \in 1..Len(outcomes) : outcomes[i] \in HookFailures})
       /\ hpc = "returned" => started = hooks
       /\ npc = "done" =>
             /\ hpc = "returned"
             /\ printed = <<worktree_path>>
             /\ exit_status = 0

C11_Witness ==
    /\ continue_on_error
    /\ npc = "done"
    /\ printed = <<worktree_path>>
    /\ Len(started) = 4
    /\ {outcomes[i] : i \in 1..3} = HookFailures

\* C12: a hook that runs into the timeout counts as a failed hook and is
\* treated as a non-zero exit is: it is not started again; with
\* continue_on_error a warning is printed and the loop goes on to the next
\* hook or returns; without it the function raises and the loop ends.
C12_TimeoutIsFailure ==
    [][(hpc = "running" /\ outcomes' = Append(outcomes, "timeout")) =>
          /\ started' = started
          /\ child' = 0
          /\ IF continue_on_error
             THEN /\ out' = Append(out, <<"warning", hooks[idx]>>)
                  /\ IF idx < Len(hooks)
                     THEN hpc' = "loop" /\ idx' = idx + 1
                     ELSE hpc' = "returned"
             ELSE /\ hpc' = "raised"
                  /\ idx' = idx
                  /\ out' = out]_vars

C12_Witness ==
    /\ continue_on_error
    /\ hpc = "running"
    /\ outcomes = <<"timeout">>
    /\ started = <<hooks[1], hooks[2]>>

-----------------------------------------------------------------------------
(* Properties of the new-worktree workflow *)

\* the validation failures of cmd_new
ValidationErrors ==
    {"SourceBranchMissing", "BranchAlreadyCheckedOut", "DestinationExists",
     "ValueError"}

\* C13: when the hook pipeline raises in the workflow, the run ends with
\* status 1 and nothing printed, and the step changes nothing of the
\* repository: the worktree at the destination, its record and the
\* branches are all still there.
C13_HookFailureKeepsWorktree ==
    [][(npc = "hooks" /\ hpc = "raised" /\ npc' # npc) =>
          /\ ~continue_on_error
          /\ npc' = "failed"
          /\ exit_status' = 1
          /\ printed' = <<>>
          /\ repo' = repo
          /\ repo.dest = "worktree"
          /\ \E w \in repo.worktrees : w.path = worktree_path
          /\ repo0.branches \subseteq repo.branches
          /\ repo0.worktrees \subseteq repo.worktrees]_vars

C13_Witness ==
    /\ npc = "failed"
    /\ error = "HookError"
    /\ exit_status = 1
    /\ repo.dest = "worktree"
    /\ git_branch_name \in repo.branches \ repo0.branches

\* C14: a run that ends with a validation failure has left the repository
\* and the file system as they were when it started.
C14_NoMutationBeforeValidationError ==
    (npc = "failed" /\ error \in ValidationErrors) => repo = repo0

\* C15: when the git branch name, prefix included, is the branch of a
\* worktree record that exists when the run starts, the run never gets past
\* the check: it ends with status 1, and no directory, parent directory,
\* branch or worktree record is created.
C15_CheckedOutBranchRejected ==
    LET g == GitBranchName(args.branch, cfg.auto_prefix)
    IN  (npc # "off" /\ \E w \in repo0.worktrees : w.branch = g) =>
           /\ npc \in {"start", "fetched", "source", "failed"}
           /\ npc = "failed" => exit_status = 1
           /\ repo.branches = repo0.branches
           /\ repo.worktrees = repo0.worktrees
           /\ repo.dest = repo0.dest
           /\ repo.parents = repo0.parents

C15_Witness ==
    /\ npc = "failed"
    /\ error = "BranchAlreadyCheckedOut"
    /\ exit_status = 1
    /\ args.branch = <<"f">>
    /\ git_branch_name = <<"u/", "f">>

Created == npc \in {"added", "tracked", "hooks_call", "hooks", "done"}

\* C17: after git worktree add has succeeded the new worktree is on the
\* target branch, which is the only branch the run has added, and only if
\* no local branch of that name existed.
C17_OnTargetBranch ==
    Created =>
       /\ \A w \in repo.worktrees :
             w.path = worktree_path => w.branch = git_branch_name
       /\ repo.branches = repo0.branches \cup {git_branch_name}

\* the ways a run can fail that are excluded by: the source ref exists, the
\* branch is not checked out, the destination does not exist, every VCS
\* command succeeds, no hook fails
ExcludedFailures ==
    {"GitError", "SourceBranchMissing", "BranchAlreadyCheckedOut",
     "DestinationExists", "NotADirectoryError", "HookError"}

\* C18: with the built-in default configuration a run fails only for one
\* of the excluded reasons; otherwise it goes through to Done, where the
\* worktree exists, the destination path is printed and the status is 0.
C18_DefaultRunReachesDone ==
    cfg = DefaultConfig =>
       /\ npc = "failed" => error \in ExcludedFailures
       /\ npc = "done" =>
             /\ exit_status = 0
             /\ printed = <<worktree_path>>
             /\ repo.dest = "worktree"

SharedVariables ==
    {"BRANCH_NAME", "SOURCE_BRANCH", "REPO_ROOT", "REPO_NAME", "WT_ROOT",
     "DATE_ISO", "TIME_ISO"}

\* C19: the context the destination path was rendered with and the context
\* handed to the hooks agree on every variable they share.
C19_SameContext ==
    hook_context # <<>> =>
       \A k \in SharedVariables : hook_context[k] = path_context[k]

\* C20: the default source resolves to origin/main if that ref exists, else
\* to origin/master if that exists; any other source is taken as given; the
\* run fails with SourceBranchMissing, status 1 and no worktree added,
\* exactly when the resolved ref does not exist.
C20_SourceResolution ==
    [][(npc = "fetched" /\ npc' # npc) =>
          /\ args.from_branch # Sentinel => source_branch' = args.from_branch
          /\ (args.from_branch = Sentinel /\ <<"origin/", "main">> \in repo.remote_refs)
                => source_branch' = <<"origin/", "main">>
          /\ (args.from_branch = Sentinel /\ <<"origin/", "main">> \notin repo.remote_refs
                /\ <<"origin/", "master">> \in repo.remote_refs)
                => source_branch' = <<"origin/", "master">>
          /\ IF source_branch' \in repo.remote_refs
             THEN npc' = "source"
             ELSE /\ npc' = "failed"
                  /\ error' = "SourceBranchMissing"
                  /\ exit_status' = 1
                  /\ repo' = repo
                  /\ repo.worktrees = repo0.worktrees]_vars

C20_Witness ==
    /\ npc = "added"
    /\ args.from_branch = Sentinel
    /\ source_branch = <<"origin/", "master">>
    /\ <<"origin/", "dev">> \in repo.remote_refs

-----------------------------------------------------------------------------
(* Properties of the worktree enumeration *)

\* the positions at which a non-empty block of the output begins
BlockStarts(lines) ==
    {i \in 1..Len(lines) : lines[i] # Blank /\ (i = 1 \/ lines[i - 1] = Blank)}

\* C26: list_worktrees yields exactly one record per non-empty block of the
\* porcelain output: whatever git printed, the call returns, and with as many
\* records as the output has blocks
C26_OneRecordPerBlock ==
    cpc \in {"returned", "raised"} =>
       /\ worktrees.ok
       /\ Len(worktrees.records) = Cardinality(BlockStarts(porcelain))

-----------------------------------------------------------------------------
(* Properties of list and status *)

\* the records of the enumeration that are not bare, in order
NonBareRecords == SelectSeq(worktrees.records, NotBare)

\* the counts git would report for a checkout whose lookups succeed
TrueAhead(path) ==
    IF cworld[path].upstream /\ cworld[path].revlist_ok THEN cworld[path].ahead ELSE 0
TrueBehind(path) ==
    IF cworld[path].upstream /\ cworld[path].revlist_ok THEN cworld[path].behind ELSE 0

\* C27: get_all_worktree_statuses returns exactly one status per non-bare
\* record, in the order of the enumeration, with path, branch and lock reason
\* copied from the record and ahead/behind as git counted them; bare records
\* contribute nothing
C27_OneStatusPerNonBareRecord ==
    copts.command = "status" /\ cpc = "done" =>
       /\ Len(statuses) = Len(NonBareRecords)
       /\ \A i \in 1..Len(statuses) :
             /\ statuses[i].path = NonBareRecords[i].path
             /\ statuses[i].branch = NonBareRecords[i].branch
             /\ statuses[i].locked = NonBareRecords[i].locked
             /\ statuses[i].ahead = TrueAhead(statuses[i].path)
             /\ statuses[i].behind = TrueBehind(statuses[i].path)

\* a bare record is skipped and the two records after it get their statuses,
\* in order, with different ahead and behind counts
C27_Witness ==
    /\ copts.command = "status"
    /\ cpc = "done"
    /\ Len(worktrees.records) = 3
    /\ worktrees.records[1].is_bare
    /\ Len(statuses) = 2
    /\ statuses[1].path = <<"/a">>
    /\ statuses[2].path = <<"/b">>
    /\ statuses[1].ahead = 2
    /\ statuses[1].behind = 1

\* the paths of the bare entries of the enumeration
BarePaths == {worktrees.records[i].path :
                 i \in {j \in 1..Len(worktrees.records) : worktrees.records[j].is_bare}}

C29_AdvisoryLookupsDoNotFail ==
    copts.command = "status" /\ cpc = "failed" /\ cerror = "GitError" =>
       cgit[Len(cgit)][1] \notin {"status", "rev-parse @{u}", "rev-list upstream",
                                  "rev-list base"}

-----------------------------------------------------------------------------
(* Properties of pull-main *)

Printed(text, path) == \E i \in 1..Len(shown) : shown[i] = <<text, path>>

Ran(op, path, result) == \E i \in 1..Len(cgit) : cgit[i] = <<op, path, result>>

\* C21: in pull-main a failure of a per-worktree step (dirty check, stash
\* push, update, stash pop) does not end the run: once the loop is entered the
\* command ends only after every non-bare worktree has been visited
C21_EveryWorktreeVisited ==
    copts.command = "pull-main" /\ cpc \in {"done", "failed"} /\ worktrees.ok =>
       \A i \in 1..Len(worktrees.records) :
          ~worktrees.records[i].is_bare =>
             Printed("Updating", worktrees.records[i].path)

\* the stash pushed in a checkout was popped after a successful update
PoppedAfterUpdate(path) ==
    \E i, j \in 1..Len(cgit) :
       /\ i < j
       /\ cgit[i] = <<"update", path, "ok">>
       /\ cgit[j] = <<"stash pop", path, "ok">>

\* the user was told to pop the stash of a checkout by hand
ToldToRecover(path) ==
    Printed(StashedWarning, path) \/ Printed(RunPopManually, path)

\* C23: in pull-main with auto-stash a stash that was pushed is either popped
\* after a successful update or left in place with a warning to recover it by
\* hand, and a dirty worktree is never updated without a stash pushed first
C23_StashNeverLost ==
    copts.command = "pull-main" =>
       /\ \A path \in CheckoutPaths :
             Ran("stash push", path, "ok") =>
                PoppedAfterUpdate(path) \/ ToldToRecover(path)
       /\ \A i \in 1..Len(cgit) :
             cgit[i][1] = "update" /\ cworld[cgit[i][2]].dirty = "dirty" =>
                \E j \in 1..(i - 1) : cgit[j] = <<"stash push", cgit[i][2], "ok">>

-----------------------------------------------------------------------------
(* Properties of prune-merged and rm *)

\* a git command that removes a worktree or deletes a branch was run on the
\* target, whether it succeeded or not
Attempted(ops, target) ==
    \E i \in 1..Len(cgit) : cgit[i][1] \in ops /\ cgit[i][2] = target

Removals == {"worktree remove"}
Deletions == {"branch delete", "branch delete -D"}

\* the path of the worktree of a branch in the listing, or None
ListedPath(branch) == FirstOnBranch(list_worktrees(porcelain).records, branch)

\* prune-merged got to a candidate: it tried to remove its worktree, or, when
\* the branch has none, to delete it
Processed(branch) ==
    IF ListedPath(branch) # None THEN Attempted(Removals, ListedPath(branch))
    ELSE DeleteToo(copts) => Attempted(Deletions, branch)

\* C22: in prune-merged a failure to remove a candidate's worktree or to
\* delete its branch does not end the run: once the loop is entered the
\* command ends only after every candidate has been processed
C22_EveryCandidateProcessed ==
    /\ copts.command = "prune-merged"
    /\ cpc \in {"done", "failed"}
    /\ ci >= 1
    /\ cerror # "KeyError"
    => \A i \in 1..Len(ToPrune) : Processed(ToPrune[i])

\* the branch checked out at a path of the listing
BranchAt(path) ==
    LET records == list_worktrees(porcelain).records
    IN  {records[i].branch : i \in {j \in 1..Len(records) : records[j].path = path}}

\* C24: prune-merged never removes the worktree of, and never deletes, a
\* branch of the configured prune.protected set or the current branch of the
\* main checkout
C24_ProtectedNeverPruned ==
    copts.command = "prune-merged" =>
       \A i \in 1..Len(cgit) :
          /\ cgit[i][1] \in Deletions =>
                cgit[i][2] \notin copts.cfg_protected \cup {cworld.current}
          /\ cgit[i][1] \in Removals =>
                BranchAt(cgit[i][2]) \cap (copts.cfg_protected \cup {cworld.current}) = {}

\* the prompt was shown and the user gave an answer other than y or Y
UserDeclined ==
    /\ ~copts.yes
    /\ copts.response \notin {"y", "Y"}
    /\ \/ Printed("Prune these branches? [y/N] ", <<"/repo">>)
       \/ Printed("Remove worktree? [y/N] ", <<"/repo">>)

\* C25: when the user declines the prompt of rm or prune-merged, no worktree
\* is removed and no branch deleted, the command prints Aborted and returns,
\* and once the with block is left the lock is released and the exit status
\* is 0
C25_DeclineChangesNothing ==
    copts.command \in {"rm", "prune-merged"} /\ UserDeclined =>
       /\ \A i \in 1..Len(cgit) : cgit[i][1] \notin Removals \cup Deletions
       /\ shown[Len(shown)] = <<"Aborted", <<"/repo">>>>
       /\ cpc = "done"
       /\ cexit = 0
       /\ pc[1] \in {"released", "exited"} =>
             /\ ~Holds(1)
             /\ exitKind[1] = "return"
             /\ <<lock_path[1], 1>> \notin flock
             /\ platform = "win32" => lock_path[1] \notin DOMAIN files

\* the user pressed Enter at the prompt of rm and the process has left the
\* with block
C25_Witness ==
    /\ copts.command = "rm"
    /\ UserDeclined
    /\ copts.response = ""
    /\ copts.delete_branch
    /\ pc[1] = "released"

-----------------------------------------------------------------------------
(* Properties of the hook output *)

\* C30: the standard output of every hook that ran to completion, with exit
\* status zero or not, has been written to wt's standard output by the time
\* the hook has ended
C30_StdoutOfEveryCompletedHook ==
    hpc # "off" =>
       \A i \in 1..Len(outcomes) :
          outcomes[i] \in {"ok", "nonzero"} /\ captured[i] =>
             \E j \in 1..Len(out) : out[j] = <<"stdout", started[i]>>

-----------------------------------------------------------------------------
(* Properties of the configuration *)

\* the value the claim gives a key of the merge of two dicts of lists
MergedFlat(base, override, key) ==
    IF key \in DOMAIN override THEN override[key] ELSE base[key]

\* C31: merge_configs gives every key, at both depths, the recursive merge
\* when it is a dict in both inputs, else the override's value when the
\* override has the key, else the base's value; no key is lost or invented
C31_MergeIsKeywiseRecursive ==
    call.function = "merge_configs" /\ answer.done =>
       LET base == call.base
           override == call.override
           merged == answer.value
       IN  /\ DOMAIN merged = DOMAIN base \cup DOMAIN override
           /\ \A key \in DOMAIN merged :
                 IF key \in DOMAIN base /\ key \in DOMAIN override
                    /\ IsDict(base[key]) /\ IsDict(override[key])
                 THEN /\ IsDict(merged[key])
                      /\ DOMAIN merged[key].value =
                            DOMAIN base[key].value \cup DOMAIN override[key].value
                      /\ \A inner \in DOMAIN merged[key].value :
                            merged[key].value[inner] =
                               MergedFlat(base[key].value, override[key].value, inner)
                 ELSE merged[key] = MergedFlat(base, override, key)

\* both inputs have the section paths with different keys, the override
\* brings a section of its own and replaces a list of the base
C31_Witness ==
    /\ call.function = "merge_configs"
    /\ answer.done
    /\ call.base = [paths |-> Dict([paths |-> Leaf(<<1>>)]), update |-> Leaf(<<1>>)]
    /\ call.override = [paths |-> Dict([update |-> Leaf(<<2>>)]), update |-> Leaf(<<2>>)]
    /\ answer.value = [paths |-> Dict([paths |-> Leaf(<<1>>), update |-> Leaf(<<2>>)]),
                       update |-> Leaf(<<2>>)]

\* the value of a key in the layer of highest precedence that sets it
Effective(path) ==
    IF call.cli.present /\ path \in DOMAIN call.cli.settings
    THEN call.cli.settings[path]
    ELSE IF call.local.present /\ path \in DOMAIN call.local.settings
    THEN call.local.settings[path]
    ELSE IF call.global.present /\ path \in DOMAIN call.global.settings
    THEN call.global.settings[path]
    ELSE DefaultValue

\* C32: load_config layers defaults, global file, local file and CLI
\* overrides in that order: every key has the value of the highest layer that
\* sets it, and its default when no layer sets it
C32_HighestLayerWins ==
    call.function = "load_config" /\ answer.done =>
       \A path \in ConfigPaths :
          answer.value[path[1]].value[path[2]] = Leaf(<<Effective(path)>>)

\* global and local file set the same key differently, another key is set
\* by the global file only and a third by no layer
C32_Witness ==
    /\ call.function = "load_config"
    /\ answer.done
    /\ call.global.present /\ call.local.present /\ ~call.cli.present
    /\ call.global.settings = (<<"branches", "auto_prefix">> :> 1
                               @@ <<"update", "strategy">> :> 1)
    /\ call.local.settings = (<<"branches", "auto_prefix">> :> 2)
    /\ answer.value["branches"].value["auto_prefix"] = Leaf(<<2>>)
    /\ answer.value["update"].value["strategy"] = Leaf(<<1>>)
    /\ answer.value["update"].value["auto_stash"] = Leaf(<<DefaultValue>>)

-----------------------------------------------------------------------------
(* Properties of the path templates *)

\* the pieces at which a $NAME token of the template starts
TokenStarts(text) ==
    {i \in 1..(Len(text) - 1) : text[i] = "$" /\ text[i + 1] \in NamePieces}

\* the token that piece i belongs to: the nearest "$" before it with
\* nothing but name pieces in between; 0 when there is none
TokenOf(text, i) ==
    LET owners == {s \in TokenStarts(text) :
                      s <= i /\ \A k \in (s + 1)..i : text[k] \in NamePieces}
    IN  IF owners = {} THEN 0 ELSE CHOOSE s \in owners : \A o \in owners : o <= s

\* the name of the token that starts at s
TokenName(text, s) ==
    LET last == CHOOSE j \in (s + 1)..Len(text) :
                    /\ TokenOf(text, j) = s
                    /\ (j = Len(text) \/ TokenOf(text, j + 1) # s)
    IN  Join(text, s + 1, last)

UnknownTokens(text, context) ==
    {s \in TokenStarts(text) : TokenName(text, s) \notin DOMAIN context}

\* what piece i of the template becomes: the value at the "$" of a known
\* token and nothing for the rest of that token, else the piece itself
Substituted(text, context, i) ==
    LET s == TokenOf(text, i)
    IN  IF s = 0 \/ s \in UnknownTokens(text, context) THEN <<text[i]>>
        ELSE IF i = s THEN context[TokenName(text, s)]
        ELSE <<>>

RECURSIVE Flatten(_)
Flatten(texts) == IF texts = <<>> THEN <<>> ELSE Head(texts) \o Flatten(Tail(texts))

Expanded(text, context) ==
    Flatten([i \in 1..Len(text) |-> Substituted(text, context, i)])

\* C33: with allow_unknown false render_path_template fails when some token
\* of the template is not in the context; with allow_unknown true it
\* succeeds, keeps the text of the unknown tokens and substitutes the known
C33_UnknownVariable ==
    call.function = "render_path_template" /\ answer.done =>
       /\ (~call.allow_unknown /\ UnknownTokens(call.template, call.context) # {})
             => ~answer.ok
       /\ call.allow_unknown =>
             /\ answer.ok
             /\ answer.value = Path(Expanded(call.template, call.context))

\* $WT_ROOT/$BRANCH_NAME rendered leniently without a branch name
C33_Witness ==
    /\ call.function = "render_path_template"
    /\ answer.done
    /\ call.allow_unknown
    /\ call.template = <<"$", "WT_ROOT", "/", "$", "BRANCH_NAME">>
    /\ call.context = [k \in {"WT_ROOT"} |-> <<"/", "x">>]
    /\ answer.ok
    /\ answer.value = [anchor |-> "/", parts |-> << <<"x">>, <<"$", "BRANCH_NAME">> >>]

\* the number of "/" in a text
Slashes(text) == Cardinality({i \in 1..Len(text) : text[i] = "/"})

\* $WT_ROOT/$BRANCH_NAME is rendered with both variables known
RendersDefault ==
    /\ call.function = "render_path_template"
    /\ answer.done
    /\ call.template = <<"$", "WT_ROOT", "/", "$", "BRANCH_NAME">>
    /\ DOMAIN call.context = NamePieces

\* the rendered path is WT_ROOT followed by the branch name cut at its
\* slashes, one segment more than it has slashes, and the second rendering
\* is the same as the first
NestedBelowRoot ==
    LET root == Path(call.context["WT_ROOT"])
        branch == call.context["BRANCH_NAME"]
    IN  /\ answer.ok
        /\ answer.value.anchor = root.anchor
        /\ answer.value.parts = root.parts \o Split(branch)
        /\ Len(answer.value.parts) = Len(root.parts) + Slashes(branch) + 1
        /\ answer.again = [ok |-> answer.ok, value |-> answer.value]

\* a name with no empty and no "." segment, as git requires of a branch
IsBranchName(text) == \A i \in 1..Len(Split(text)) : IsComponent(Split(text)[i])

-----------------------------------------------------------------------------
(* Properties of the PID file *)

\* C35: on the PID-file path, whenever an invocation holds the lock the lock
\* file's content parses to exactly the PID of that invocation
C35_PidFileNamesHolder ==
    platform = "win32" =>
       \A p \in Procs :
          Holds(p) =>
             /\ lock_path[p] \in DOMAIN files
             /\ IsInt(files[lock_path[p]])
             /\ IntOf(files[lock_path[p]]) = Pid(p)

-----------------------------------------------------------------------------
(* Properties of the optional lines of a block *)

\* the lines of the block that begins at position i
BlockAt(lines, i) ==
    {j \in i..Len(lines) : \A k \in i..j : lines[k] # Blank}

\* the path a block names: that of its last worktree line
PathsOfBlock(lines, i) ==
    {lines[j].value : j \in {m \in BlockAt(lines, i) :
                               /\ lines[m].key = "worktree"
                               /\ \A n \in BlockAt(lines, i) :
                                     lines[n].key = "worktree" => n <= m}}

\* every block begins with its worktree line and has no other, as git
\* prints it
BlocksNameWorktrees(lines) ==
    \A i \in BlockStarts(lines) :
       \A j \in BlockAt(lines, i) : lines[j].key = "worktree" <=> j = i

\* C36: list_worktrees returns, with a record for every block that has a
\* worktree line, whichever of the HEAD, branch, bare and locked lines the
\* block has or lacks
C36_RecordForEveryWorktreeLine ==
    cpc \in {"returned", "raised"} /\ BlocksNameWorktrees(porcelain) =>
       /\ worktrees.ok
       /\ \A i \in BlockStarts(porcelain) :
             \A path \in PathsOfBlock(porcelain, i) :
                \E r \in 1..Len(worktrees.records) : worktrees.records[r].path = path

-----------------------------------------------------------------------------
(* Properties of rm --delete-branch *)

\* rm was asked to delete, without --force, a branch that has commits its
\* upstream lacks, and has removed the worktree
UnpushedAtGuard ==
    /\ copts.command = "rm"
    /\ copts.delete_branch
    /\ ~copts.force
    /\ cworld.unpushed > 0
    /\ cpc \in {"done", "failed"}
    /\ \E i \in 1..Len(cgit) : cgit[i][1] \in Removals /\ cgit[i][3] = "ok"

\* C37: rm --delete-branch without --force never deletes a branch with
\* unpushed commits: its check, which runs after the removal of the
\* worktree, sees the unpushed commits, reports them and ends the command
\* before any deletion is tried
C37_UnpushedBranchGuarded ==
    UnpushedAtGuard =>
       /\ \A i \in 1..Len(cgit) : cgit[i][1] \notin Deletions
       /\ shown[Len(shown)] =
             <<"Error: unpushed commits", GitBranchName(copts.branch, copts.auto_prefix)>>
       /\ cerror = "SystemExit"

-----------------------------------------------------------------------------
(* Properties of gc *)

\* C38: whatever gc removes is a directory below the worktree root that is
\* empty when it is removed and is not the path of a registered worktree;
\* nothing else on disk changes
C38_GcRemovesOnlyEmptyUnregistered ==
    [][copts.command = "gc" =>
          \A path \in GcPaths \cup {WtRoot} :
             cworld.fs[path] # cworld'.fs[path] =>
                /\ cworld'.fs[path] = "absent"
                /\ path # WtRoot /\ IsPrefix(WtRoot, path)
                /\ cworld.fs[path] = "empty"
                /\ \A q \in GcPaths : Parent(q) = path => cworld.fs[q] = "absent"
                /\ path \notin cworld.registered]_vars

\* gc ended after it removed one empty directory and left three others: one
\* with a file, the empty one of a locked worktree, and one beside the root
C38_Witness ==
    /\ copts.command = "gc"
    /\ cpc = "done"
    /\ Attempted({"rmdir"}, UnderC)
    /\ cworld.fs[UnderC] = "absent"
    /\ cworld.fs[UnderA] = "empty"
    /\ cworld.fs[UnderAB] = "empty"
    /\ UnderAB \in cworld.registered
    /\ cworld.fs[Outside] = "empty"

====
